---- MODULE Spec2Model ----
(***************************************************************************)
(* A model of the wSMA cryostat compressor control layer:                  *)
(*   - wsma_cryostat_compressor.Compressor (construction, on / off /      *)
(*     update, the getters, the frequency command, the fault decoder),     *)
(*   - wsma_cryostat_compressor.inverter.Inverter (construction,           *)
(*     set_frequency),                                                     *)
(*   - wsma_cryostat_compressor.cli (main),                                *)
(*   - smax-daemon CompressorInterface (lock, poll cycle, callbacks),      *)
(*   - smax-daemon CompressorSmaxService (poll cycle, callbacks, stop).    *)
(* Every register operation, settle delay and lock operation is one step.  *)
(* The device is the environment: its registers change at any time and any *)
(* transport operation may fail.                                           *)
(***************************************************************************)
EXTENDS Integers, Sequences, FiniteSets, TLC

----------------------------------------------------------------------------
(* Program constants *)

\* Compressor operating states (_status_to_string; Compressor.__init__ comment)
ST_READY == 0
ST_STARTING == 2
ST_RUNNING == 3
ST_STOPPING == 5
ST_ERROR == 7

\* command codes written to the enable holding register by on() / off()
ENABLE_ON == 1
ENABLE_OFF == 255

\* a fault flag of _error_code_to_string ("Three Phase Error")
ERR_THREE_PHASE == -32768

\* firmware major versions (Compressor.__init__ selects the register map)
FW_V2 == 2
FW_V3 == 3

\* Inverter.set_frequency limits, in units of 0.01 Hz
INV_F_MIN == 4000
INV_F_MAX == 7000

\* daemon frequency limits of the callbacks, in Hz
CB_F_MIN == 40
CB_F_MAX == 70

\* Inverter._read_registers: stop_max_attempt_number of the retry decorator
STOP_MAX_ATTEMPT == 5

----------------------------------------------------------------------------
(* Bounds of the model *)

\* requested frequencies are enumerated in millihertz, within FreqSpan mHz
\* of each limit of the range
FreqSpan == 12

\* the number of entries of the logged_data configuration of a daemon
MaxLogged == 2

\* the number of fault flags set together in an error code
MaxFlags == 2

----------------------------------------------------------------------------

HwStates == {ST_READY, ST_STARTING, ST_RUNNING, ST_STOPPING, ST_ERROR}
ErrCodes == {0, ERR_THREE_PHASE}
FwVersions == {FW_V2, FW_V3}

\* the threads of control: a direct caller of the Compressor API, the polling
\* loop of a daemon, and the notification-delivery context of a daemon
Threads == {"main", "poll", "cmd"}

NoAddr == -1

\* cp_v2_registers: logical name -> address, NoAddr for None
cp_v2_registers ==
    [ operating_state |-> 1, enabled |-> 2, inverter_set_freq |-> NoAddr,
      warning |-> 3, error |-> 5, coolant_in |-> 7, coolant_out |-> 9,
      oil_temp |-> 11, helium_temp |-> 13, low_press |-> 15,
      low_press_avg |-> 17, high_press |-> 19, high_press_avg |-> 21,
      delta_press_avg |-> 23, motor_current |-> 25, hours |-> 27,
      press_unit |-> 29, temp_unit |-> 30, rpm |-> NoAddr,
      software_var |-> NoAddr, inverter_freq |-> NoAddr,
      inverter_curr |-> NoAddr, enable |-> 1 ]

\* cp_v3_registers
cp_v3_registers ==
    [ operating_state |-> 1, enabled |-> 2, warning |-> 52, error |-> 54,
      coolant_in |-> 40, coolant_out |-> 41, oil_temp |-> 42,
      helium_temp |-> 43, low_press |-> 44, low_press_avg |-> 45,
      high_press |-> 46, high_press_avg |-> 47, delta_press_avg |-> 48,
      motor_current |-> 49, hours |-> 50, press_unit |-> 29,
      temp_unit |-> 30, rpm |-> 34, software_var |-> 35,
      inverter_freq |-> 36, inverter_curr |-> 37, enable |-> 1,
      inverter_set_freq |-> 3 ]

\* Compressor.__init__: the register map of the detected firmware version
cp_registers(fw) == IF fw = FW_V3 THEN cp_v3_registers ELSE cp_v2_registers

\* _error_code_to_string: the fault flags in the order they are tested, each
\* with the magnitude tested and subtracted (w) and the name appended (n)
ErrorFlags ==
    << [w |-> 1073741824, n |-> "Inverter Comm Loss"],
       [w |-> 536870912, n |-> "Driver Comm Loss"],
       [w |-> 268435456, n |-> "Inverter Error"],
       [w |-> 134217728, n |-> "Motor Current High"],
       [w |-> 67108864, n |-> "Motor Current Sensor"],
       [w |-> 33554432, n |-> "Low Pressure Sensor"],
       [w |-> 16777216, n |-> "High Pressure Sensor"],
       [w |-> 8388608, n |-> "Oil Sensor"],
       [w |-> 4194304, n |-> "Helium Sensor"],
       [w |-> 2097152, n |-> "Coolant Out Sensor"],
       [w |-> 1048576, n |-> "Coolant In Sensor"],
       [w |-> 524288, n |-> "Cold Head Motor Stall"],
       [w |-> 262144, n |-> "Static Pressure Low"],
       [w |-> 131072, n |-> "Static Pressure High"],
       [w |-> 65536, n |-> "Power Supply Error"],
       [w |-> 32768, n |-> "Three Phase Error"],
       [w |-> 16384, n |-> "Motor Current Low"],
       [w |-> 8192, n |-> "Delta Pressure Low"],
       [w |-> 4096, n |-> "Delta Pressure High"],
       [w |-> 2048, n |-> "High Pressure Low"],
       [w |-> 1024, n |-> "High Pressure High"],
       [w |-> 512, n |-> "Low Pressure Low"],
       [w |-> 256, n |-> "Low Pressure High"],
       [w |-> 128, n |-> "Helium Low"],
       [w |-> 64, n |-> "Helium High"],
       [w |-> 32, n |-> "Oil Low"],
       [w |-> 16, n |-> "Oil High"],
       [w |-> 8, n |-> "Coolant Out Low"],
       [w |-> 4, n |-> "Coolant Out High"],
       [w |-> 2, n |-> "Coolant In Low"],
       [w |-> 1, n |-> "Coolant In High"] >>

\* the tests "if -w >= worker: str_return += name; worker -= -w", from the
\* i-th on
RECURSIVE DecodeFrom(_, _)
DecodeFrom(worker, i) ==
    IF i > Len(ErrorFlags) THEN << >>
    ELSE IF -ErrorFlags[i].w >= worker
         THEN << ErrorFlags[i].n >> \o DecodeFrom(worker + ErrorFlags[i].w, i + 1)
         ELSE DecodeFrom(worker, i + 1)

\* a variant of _error_code_to_string that takes the code as it is given
_error_code_to_string_signed(code) ==
    LET str_return == DecodeFrom(code, 1)
    IN  IF str_return = << >> THEN << "None" >> ELSE str_return

\* _error_code_to_string(error_code): worker = -error_code if error_code > 0
\* else error_code; the names are joined by ", "; 'None' when there is none.
\* The string is modelled as the sequence of the names it lists.
_error_code_to_string(code) ==
    LET worker == IF code > 0 THEN -code ELSE code
        str_return == DecodeFrom(worker, 1)
    IN  IF str_return = << >> THEN << "None" >> ELSE str_return

\* Compressor.update: the registers read by its getters, in call order.
\* The state, enabled and error getters are one step each; the getters from
\* _get_warnings to _get_hours, whose readings no decision depends on, are
\* taken together as one step; the two inverter getters follow.
UpdateOrder ==
    << << "operating_state" >>, << "enabled" >>, << "error" >>,
       << "warning", "coolant_in", "coolant_out", "oil_temp", "helium_temp",
          "low_press", "low_press_avg", "high_press", "high_press_avg",
          "delta_press_avg", "motor_current", "hours" >>,
       << "inverter_freq" >>, << "inverter_curr" >> >>

\* the steps update() always takes; the inverter getters follow
NSensors == Len(UpdateOrder) - 2

VARIABLES
    hw_state,       \* device: operating state register
    software_rev,   \* Compressor: detected firmware major version
    inverter,       \* Compressor._inverter: "None", "internal", "rs485", "rs485_ethernet"
    state,          \* Compressor._state (cached)
    error_code,     \* Compressor._error_code (cached)
    pc,             \* per thread: the stack of code positions, innermost first
    ui,             \* per thread: position in update()'s getter sequence
    trace,          \* per thread: transport and delay events of the current device call
    hist,           \* per thread: bookkeeping of the current on()/off() call
    exc,            \* per thread: the exception last raised in the current operation
    hardware_lock,  \* CompressorInterface._hardware_lock: "free" or the holding thread
    cyc,            \* per thread: register-sequence status of the operation in progress
    mixed,          \* the threads whose operation in progress had its register sequence interleaved
    \* Inverter
    freq,               \* the frequency argument in flight, in millihertz
    frequency_setting,  \* Inverter._frequency_setting (cached, 0.01 Hz)
    hw_inv_set,         \* device: the inverter's frequency setting register
    attempt,            \* Inverter._read_registers: the attempt in progress
    \* CompressorInterface
    inverter_config,    \* the "inverter_type" of the configuration, or "absent"
    hardware,           \* self._hardware: "None" or "Compressor"
    hardware_error,     \* self._hardware_error
    comm_status,        \* logged_data['comm_status'] of the logging_action call
    gi,                 \* logging_action: the logged_data entry being read
    message,            \* the data of the notification being handled
    \* CompressorSmaxService
    compressor,         \* self.compressor: "None" or "Compressor"
    compressor_error,   \* smax_logging_action: its local flag
    compressor_comms_status, \* logged_data['compressor_comms_status'] of the cycle: "good", "stale", "omitted"
    compressor_data,    \* the number of entries of self._compressor_data
    inverter_comms_status, \* logged_data['inverter_comms_status'] of the cycle
    updates,            \* per device: the outcomes of the update() attempts of the cycle
    io_failures,        \* inverter transport: the transient I/O failures it answers to a read before an answer
    \* Compressor, further attributes
    register_map,       \* the firmware version whose register map __init__ copied into the address attributes
    comp,               \* the direct caller's reference to its Compressor: "None" or "Compressor"
    errors,             \* the string last returned by the errors property, as the sequence of its names
    Inverter_client     \* Inverter._client of the Inverter object last entered: "None" or "open"

invVars == << freq, frequency_setting, hw_inv_set, attempt >>
ifaceVars == << inverter_config, hardware, hardware_error, comm_status, gi,
               message >>
svcVars == << compressor, compressor_error, compressor_comms_status,
             compressor_data, inverter_comms_status, updates, io_failures >>
apiVars == << register_map, comp, errors, Inverter_client >>
otherVars == << invVars, ifaceVars, svcVars, apiVars >>

vars == << hw_state, software_rev, inverter, state, error_code,
           pc, ui, trace, hist, exc, hardware_lock, cyc, mixed,
           invVars, ifaceVars, svcVars, apiVars >>

----------------------------------------------------------------------------
(* Bookkeeping shared by all operations *)

Ev(k, a, v) == [k |-> k, a |-> a, v |-> v]

\* the record kept for an on()/off() call: the method (m), the cached state
\* and error code at entry (st0, er0), how the call ended (ret), whether the
\* confirmation read showed an expected state (conf), whether the failure
\* raised carries a fault code and which (carries, code), and the state the
\* device was in when on() made its final check (chk)
NoCall == [m |-> "none", st0 |-> ST_READY, er0 |-> 0, ret |-> "none",
           conf |-> "unread", carries |-> FALSE, code |-> 0, chk |-> ST_READY]

NewCall(m) == [m |-> m, st0 |-> state, er0 |-> error_code, ret |-> "running",
               conf |-> "unread", carries |-> FALSE, code |-> 0,
               chk |-> ST_READY]

\* a variant of Handler in which the second update() of the polling cycle
\* of CompressorSmaxService is outside any try block
Handler_one_try ==
    [ ch_connected |-> "ch_except",
      la_getters |-> "la_except",
      cc_done |-> "cc_except",
      fc_done |-> "fc_except",
      sl_comp_after1 |-> "sl_comp_retry",
      pcc_done |-> "pcc_uncaught",
      main_done |-> "main_done" ]

\* except clauses: the position a caller resumes at when the call it waits
\* for (or its own statement) raises inside a try block
Handler ==
    [ ch_connected |-> "ch_except",
      la_getters |-> "la_except",
      cc_done |-> "cc_except",
      fc_done |-> "fc_except",
      sl_comp_after1 |-> "sl_comp_retry",
      sl_comp_after2 |-> "sl_comp_failed",
      pcc_done |-> "pcc_uncaught",
      main_done |-> "main_done" ]

RECURSIVE Unwind(_)
Unwind(s) ==
    IF s = << >> THEN << >>
    ELSE IF Head(s) \in DOMAIN Handler
         THEN << Handler[Head(s)] >> \o Tail(s)
         ELSE Unwind(Tail(s))

\* register-sequence status after thread t issued a register operation
Touched(m, t) ==
    [u \in Threads |->
        IF u = t THEN (IF m[u] = "cut" THEN "cut" ELSE "clean")
        ELSE IF m[u] = "clean" THEN "cut" ELSE m[u]]

\* One step of thread t: it goes on with stack s; touch says whether the
\* step issued a register operation on the transport; unlock whether it
\* leaves a "with self._hardware_lock" block.
Step(t, s, touch, unlock) ==
    LET c1 == IF touch THEN Touched(cyc, t) ELSE cyc
    IN  /\ pc' = [pc EXCEPT ![t] = s]
        /\ cyc' = IF s = << >> THEN [c1 EXCEPT ![t] = "none"] ELSE c1
        /\ mixed' = IF s = << >> THEN mixed \ {t}
                    ELSE IF touch /\ cyc[t] = "cut" THEN mixed \cup {t}
                    ELSE mixed
        /\ hardware_lock' = IF unlock /\ hardware_lock = t THEN "free"
                            ELSE hardware_lock

At(t, l) == pc[t] # << >> /\ Head(pc[t]) = l

\* go on at position l of the current function
Goto(t, l, touch) ==
    /\ Step(t, << l >> \o Tail(pc[t]), touch, FALSE)
    /\ exc' = exc

\* return from the current function to its caller
Return(t, touch) ==
    /\ Step(t, Tail(pc[t]), touch, FALSE)
    /\ exc' = exc

\* call a function: enter it at position entry, resume at position back
Call(t, back, entry) ==
    /\ Step(t, << entry, back >> \o Tail(pc[t]), FALSE, FALSE)
    /\ exc' = exc

\* a variant of Raise in which the with block a raise leaves keeps the lock
Raise_keeps_lock(t, e, touch) ==
    /\ Step(t, Unwind(Tail(pc[t])), touch, FALSE)
    /\ exc' = [exc EXCEPT ![t] = e]

\* raise exception e in the current function, which does not catch it: the
\* callers unwind to the innermost except clause; a lock held in a with
\* block on the way is released
Raise(t, e, touch) ==
    /\ Step(t, Unwind(Tail(pc[t])), touch, hardware_lock = t)
    /\ exc' = [exc EXCEPT ![t] = e]

\* the outcome of an on()/off() call in progress, once it is decided
Outcome(t, r) ==
    hist' = [hist EXCEPT ![t] =
                IF @.ret = "running" THEN [@ EXCEPT !.ret = r] ELSE @]

\* the bookkeeping is kept for the calls that have a record
Tracked(t) == hist[t].m # "none"

Log(t, e) ==
    trace' = [trace EXCEPT ![t] = IF Tracked(t) THEN Append(@, e) ELSE @]

LogAll(t, es) ==
    trace' = [trace EXCEPT ![t] = IF Tracked(t) THEN @ \o es ELSE @]

\* an observation h about the call in progress
Note(t, h) == hist' = [hist EXCEPT ![t] = IF Tracked(t) THEN h ELSE @]

----------------------------------------------------------------------------
(* The device: its operating state changes at any time; the error register *)
(* holds any fault code at the time it is read                             *)

HwStep ==
    /\ \E s \in HwStates \ {hw_state} : hw_state' = s
    /\ UNCHANGED << otherVars, software_rev, inverter, state, error_code, pc, ui, trace,
                    hist, exc, hardware_lock, cyc, mixed >>

----------------------------------------------------------------------------
(* Compressor: register access *)

Present(reg) == cp_registers(register_map)[reg] # NoAddr

\* Compressor._read_input_register / _read_int16 / _read_int32 /
\* _read_float32 on the register of logical name reg, with the cache
\* assignment of the getter that called it.  ok: the transport answered
\* without error.
ReadCache(reg, ok) ==
    /\ state' = IF ok /\ reg = "operating_state" THEN hw_state ELSE state
    /\ IF ok /\ reg = "error"
       THEN error_code' \in ErrCodes
       ELSE error_code' = error_code

\* the outcomes the transport can produce for a read of reg: an absent
\* address cannot be answered
ReadOutcomes(reg) == IF Present(reg) THEN BOOLEAN ELSE {FALSE}

ReadEv(reg) == Ev("read", reg, cp_registers(register_map)[reg])

\* the registers of the Inverter class, all read through
\* Inverter._read_registers
InverterRegisters ==
    {"frequency", "current", "voltage", "power", "frequency_control"}

\* the Modbus read function a read of logical register reg is issued with:
\* Inverter._read_registers calls read_holding_registers; every read of the
\* Compressor (_read_int16, _read_int32, _read_float32, _read_int8s,
\* get_serial, get_model) calls read_input_registers
ReadFunction(reg) == IF reg \in InverterRegisters THEN "holding" ELSE "input"

\* the sensor quantities whose getters read one register with _read_int16
\* on version 3 and two with _read_float32 otherwise
SensorRegisters ==
    {"coolant_in", "coolant_out", "oil_temp", "helium_temp", "low_press",
     "low_press_avg", "high_press", "high_press_avg", "delta_press_avg",
     "motor_current"}

\* the quantities read through _read_input_register: _get_state,
\* _get_enabled, get_pressure_scale, get_temperature_scale
GenericRegisters == {"operating_state", "enabled", "press_unit", "temp_unit"}

\* the count of registers a read of logical register reg asks the transport
\* for when the detected firmware version is fw: _read_float32 and
\* _read_int32 ask for two, _read_int16 and _read_int8s for one, and
\* _read_input_register picks _read_int16 on version 3, _read_float32
\* otherwise
ReadCount(fw, reg) ==
    IF reg \in GenericRegisters \cup SensorRegisters
    THEN IF fw = FW_V3 THEN 1 ELSE 2
    ELSE IF reg \in {"warning", "error", "hours"} THEN 2 ELSE 1

\* the count of registers the register map of version fw assigns to the
\* logical register reg: int16 quantities hold one register, int32 and
\* float32 quantities hold two ("and" the next address)
RegisterWidth(fw, reg) ==
    IF reg \in {"warning", "error", "hours"} THEN 2
    ELSE IF reg \in SensorRegisters /\ fw # FW_V3 THEN 2 ELSE 1

----------------------------------------------------------------------------
(* Compressor.update *)

Truthy(inv) == inv # "None"

\* the outcomes of the reads of one step of update(): n reads are issued,
\* and the last of them is answered (ok) or fails; a read of an absent
\* address fails, and a failed read ends the step
GroupOutcomes(regs) ==
    { o \in (1 .. Len(regs)) \X BOOLEAN :
        /\ o[2] => o[1] = Len(regs)
        /\ \A j \in 1 .. (o[1] - 1) : Present(regs[j])
        /\ o[2] => Present(regs[o[1]]) }

update(t) ==
    /\ At(t, "update")
    /\ LET i == ui[t]
           regs == UpdateOrder[i]
           last == \/ i = Len(UpdateOrder)
                   \/ (i = NSensors /\ ~Truthy(inverter))
       IN  IF i <= NSensors \/ inverter = "internal"
           THEN \E o \in GroupOutcomes(regs) :
                  LET n == o[1]
                      ok == o[2]
                      issued == n > 1 \/ Present(regs[1])
                  IN  /\ LogAll(t, [j \in 1 .. n |-> ReadEv(regs[j])])
                      /\ ReadCache(regs[n], ok)
                      /\ IF ~ok
                         THEN /\ Raise(t, "RuntimeError", issued)
                              /\ Outcome(t, "read_error")
                              /\ ui' = [ui EXCEPT ![t] = 1]
                         ELSE /\ hist' = hist
                              /\ IF last
                                 THEN /\ Return(t, TRUE)
                                      /\ ui' = [ui EXCEPT ![t] = 1]
                                 ELSE /\ Goto(t, "update", TRUE)
                                      /\ ui' = [ui EXCEPT ![t] = i + 1]
           ELSE IF inverter = "rs485"
           THEN \* self._inverterclient is not an attribute of the object
                /\ Raise(t, "AttributeError", FALSE)
                /\ Outcome(t, "read_error")
                /\ ui' = [ui EXCEPT ![t] = 1]
                /\ UNCHANGED << trace, state, error_code >>
           ELSE \* any other inverter string: the getter passes
                /\ IF last
                   THEN Return(t, FALSE) /\ ui' = [ui EXCEPT ![t] = 1]
                   ELSE /\ Goto(t, "update", FALSE)
                        /\ ui' = [ui EXCEPT ![t] = i + 1]
                /\ UNCHANGED << hist, trace, state, error_code >>
    /\ UNCHANGED << otherVars, hw_state, software_rev, inverter >>

----------------------------------------------------------------------------
(* Compressor.on *)

OnStates == {ST_STARTING, ST_RUNNING}
OffStates == {ST_STOPPING, ST_READY}

\* w = self._client.write_registers(self._enable_addr, 0x0001, slave=1);
\* if w.isError(): raise RuntimeError
on_write(t) ==
    /\ At(t, "on_write")
    /\ \E ok \in BOOLEAN :
          /\ Log(t, Ev("write", "enable", ENABLE_ON))
          /\ IF ok
             THEN Goto(t, "on_sleep1", TRUE) /\ hist' = hist
             ELSE Raise(t, "RuntimeError", TRUE) /\ Outcome(t, "write_error")
    /\ UNCHANGED << otherVars, hw_state, software_rev, inverter, state,
                    error_code, ui >>

\* sleep(self._enable_delay)
on_sleep1(t) ==
    /\ At(t, "on_sleep1")
    /\ Log(t, Ev("sleep", "enable_delay", 0))
    /\ Goto(t, "on_get_state", FALSE)
    /\ UNCHANGED << otherVars, hw_state, software_rev, inverter, state,
                    error_code, ui, hist >>

\* a variant of on_get_state that goes on to update() whatever was read
on_get_state_nocheck(t) ==
    /\ At(t, "on_get_state")
    /\ \E ok \in ReadOutcomes("operating_state") :
          /\ Log(t, ReadEv("operating_state"))
          /\ ReadCache("operating_state", ok)
          /\ IF ~ok
             THEN Raise(t, "RuntimeError", TRUE) /\ Outcome(t, "read_error")
             ELSE /\ Goto(t, "on_update", TRUE)
                  /\ hist' = [hist EXCEPT ![t].conf =
                                 IF state' \in OnStates THEN "yes" ELSE "no"]
    /\ UNCHANGED << otherVars, hw_state, software_rev, inverter, ui >>

\* self._get_state(); if self._state != 2 and self._state != 3: sleep(...)
on_get_state(t) ==
    /\ At(t, "on_get_state")
    /\ \E ok \in ReadOutcomes("operating_state") :
          /\ Log(t, ReadEv("operating_state"))
          /\ ReadCache("operating_state", ok)
          /\ IF ~ok
             THEN Raise(t, "RuntimeError", TRUE) /\ Outcome(t, "read_error")
             ELSE IF state' \in OnStates
                  THEN /\ Goto(t, "on_update", TRUE)
                       /\ Note(t, [hist[t] EXCEPT !.conf = "yes"])
                  ELSE /\ Goto(t, "on_sleep2", TRUE)
                       /\ Note(t, [hist[t] EXCEPT !.conf = "no"])
    /\ UNCHANGED << otherVars, hw_state, software_rev, inverter, ui >>

\* a variant of on_sleep2 that repeats the command when the state is not
\* the expected one
on_sleep2_rewrite(t) ==
    /\ At(t, "on_sleep2")
    /\ Log(t, Ev("sleep", "enable_delay", 0))
    /\ Note(t, [hist[t] EXCEPT !.chk = hw_state])
    /\ IF state \in OnStates
       THEN Goto(t, "on_update", FALSE)
       ELSE Goto(t, "on_write", FALSE)
    /\ UNCHANGED << otherVars, hw_state, software_rev, inverter, state, error_code, ui >>

\* the second sleep(self._enable_delay), then the final check
\* "if self._state != 2 and self._state != 3" on the cached state
on_sleep2(t) ==
    /\ At(t, "on_sleep2")
    /\ Log(t, Ev("sleep", "enable_delay", 0))
    /\ Note(t, [hist[t] EXCEPT !.chk = hw_state])
    /\ IF state \in OnStates
       THEN Goto(t, "on_update", FALSE)
       ELSE Goto(t, "on_get_errors", FALSE)
    /\ UNCHANGED << otherVars, hw_state, software_rev, inverter, state,
                    error_code, ui >>

\* self._get_errors(); raise RuntimeError("... Error Code {}".format(self._error_code))
on_get_errors(t) ==
    /\ At(t, "on_get_errors")
    /\ \E ok \in ReadOutcomes("error") :
          /\ Log(t, ReadEv("error"))
          /\ ReadCache("error", ok)
          /\ Raise(t, "RuntimeError", TRUE)
          /\ IF ok
             THEN Note(t, [hist[t] EXCEPT !.ret = "confirm_fail",
                                          !.carries = TRUE,
                                          !.code = error_code'])
             ELSE Outcome(t, "read_error")
    /\ UNCHANGED << otherVars, hw_state, software_rev, inverter, ui >>

\* self.update()
on_update(t) ==
    /\ At(t, "on_update")
    /\ Call(t, "on_return", "update")
    /\ ui' = [ui EXCEPT ![t] = 1]
    /\ UNCHANGED << otherVars, hw_state, software_rev, inverter, state,
                    error_code, trace, hist >>

\* a variant of on_return that records the running state in the cache
on_return_assumes_running(t) ==
    /\ At(t, "on_return")
    /\ Return(t, FALSE)
    /\ Outcome(t, "ok")
    /\ state' = ST_RUNNING
    /\ UNCHANGED << otherVars, hw_state, software_rev, inverter, error_code,
                    trace, ui >>

\* on() returns
on_return(t) ==
    /\ At(t, "on_return")
    /\ Return(t, FALSE)
    /\ Outcome(t, "ok")
    /\ UNCHANGED << otherVars, hw_state, software_rev, inverter, state,
                    error_code, trace, ui >>

----------------------------------------------------------------------------
(* Compressor.off *)

\* a variant of off_write that looks at the reply only after the settle delay
off_write_late_check(t) ==
    /\ At(t, "off_write")
    /\ \E ok \in BOOLEAN :
          IF ok
          THEN /\ Log(t, Ev("write", "enable", ENABLE_OFF))
               /\ Goto(t, "off_sleep1", TRUE) /\ hist' = hist
          ELSE /\ trace' = [trace EXCEPT ![t] =
                              @ \o << Ev("write", "enable", ENABLE_OFF),
                                      Ev("sleep", "enable_delay", 0) >>]
               /\ Raise(t, "RuntimeError", TRUE) /\ Outcome(t, "write_error")
    /\ UNCHANGED << otherVars, hw_state, software_rev, inverter, state, error_code, ui >>

\* a variant of off_write that refuses the command while the compressor is
\* starting
off_write_guarded(t) ==
    /\ At(t, "off_write")
    /\ IF state = ST_STARTING
       THEN /\ Raise(t, "RuntimeError", FALSE) /\ Outcome(t, "rejected")
            /\ trace' = trace
       ELSE \E ok \in BOOLEAN :
              /\ Log(t, Ev("write", "enable", ENABLE_OFF))
              /\ IF ok
                 THEN Goto(t, "off_sleep1", TRUE) /\ hist' = hist
                 ELSE Raise(t, "RuntimeError", TRUE) /\ Outcome(t, "write_error")
    /\ UNCHANGED << otherVars, hw_state, software_rev, inverter, state, error_code, ui >>

\* w = self._client.write_registers(self._enable_addr, 0x00FF, slave=1);
\* if w.isError(): raise RuntimeError
off_write(t) ==
    /\ At(t, "off_write")
    /\ \E ok \in BOOLEAN :
          /\ Log(t, Ev("write", "enable", ENABLE_OFF))
          /\ IF ok
             THEN Goto(t, "off_sleep1", TRUE) /\ hist' = hist
             ELSE Raise(t, "RuntimeError", TRUE) /\ Outcome(t, "write_error")
    /\ UNCHANGED << otherVars, hw_state, software_rev, inverter, state,
                    error_code, ui >>

off_sleep1(t) ==
    /\ At(t, "off_sleep1")
    /\ Log(t, Ev("sleep", "enable_delay", 0))
    /\ Goto(t, "off_get_state", FALSE)
    /\ UNCHANGED << otherVars, hw_state, software_rev, inverter, state,
                    error_code, ui, hist >>

\* self._get_state(); if self._state != 5 and self._state != 0: sleep(...)
off_get_state(t) ==
    /\ At(t, "off_get_state")
    /\ \E ok \in ReadOutcomes("operating_state") :
          /\ Log(t, ReadEv("operating_state"))
          /\ ReadCache("operating_state", ok)
          /\ IF ~ok
             THEN Raise(t, "RuntimeError", TRUE) /\ Outcome(t, "read_error")
             ELSE IF state' \in OffStates
                  THEN /\ Goto(t, "off_update", TRUE)
                       /\ Note(t, [hist[t] EXCEPT !.conf = "yes"])
                  ELSE /\ Goto(t, "off_sleep2", TRUE)
                       /\ Note(t, [hist[t] EXCEPT !.conf = "no"])
    /\ UNCHANGED << otherVars, hw_state, software_rev, inverter, ui >>

\* the second sleep, then "if self._state != 5 and self._state != 0:
\* raise RuntimeError("Compressor did not turn off")"
off_sleep2(t) ==
    /\ At(t, "off_sleep2")
    /\ Log(t, Ev("sleep", "enable_delay", 0))
    /\ IF state \in OffStates
       THEN /\ Goto(t, "off_update", FALSE)
            /\ hist' = hist
       ELSE /\ Raise(t, "RuntimeError", FALSE)
            /\ Outcome(t, "confirm_fail")
    /\ UNCHANGED << otherVars, hw_state, software_rev, inverter, state,
                    error_code, ui >>

off_update(t) ==
    /\ At(t, "off_update")
    /\ Call(t, "off_return", "update")
    /\ ui' = [ui EXCEPT ![t] = 1]
    /\ UNCHANGED << otherVars, hw_state, software_rev, inverter, state,
                    error_code, trace, hist >>

off_return(t) ==
    /\ At(t, "off_return")
    /\ Return(t, FALSE)
    /\ Outcome(t, "ok")
    /\ UNCHANGED << otherVars, hw_state, software_rev, inverter, state,
                    error_code, trace, ui >>

\* the steps of the Compressor methods, whoever the caller is
CompressorStep(t) ==
    \/ update(t)
    \/ on_write(t) \/ on_sleep1(t) \/ on_get_state(t) \/ on_sleep2(t)
    \/ on_get_errors(t) \/ on_update(t) \/ on_return(t)
    \/ off_write(t) \/ off_sleep1(t) \/ off_get_state(t) \/ off_sleep2(t)
    \/ off_update(t) \/ off_return(t)

----------------------------------------------------------------------------
(* A direct caller of the Compressor API (the command line, a test) *)

Idle(t) == pc[t] = << >>

\* comp.on()
call_on ==
    /\ Idle("main")
    /\ pc' = [pc EXCEPT !["main"] = << "on_write" >>]
    /\ hist' = [hist EXCEPT !["main"] = NewCall("on")]
    /\ trace' = [trace EXCEPT !["main"] = << >>]
    /\ exc' = [exc EXCEPT !["main"] = "none"]
    /\ UNCHANGED << otherVars, hw_state, software_rev, inverter, state,
                    error_code, ui, hardware_lock, cyc, mixed >>

\* comp.off()
call_off ==
    /\ Idle("main")
    /\ pc' = [pc EXCEPT !["main"] = << "off_write" >>]
    /\ hist' = [hist EXCEPT !["main"] = NewCall("off")]
    /\ trace' = [trace EXCEPT !["main"] = << >>]
    /\ exc' = [exc EXCEPT !["main"] = "none"]
    /\ UNCHANGED << otherVars, hw_state, software_rev, inverter, state,
                    error_code, ui, hardware_lock, cyc, mixed >>

\* comp.update()
call_update ==
    /\ Idle("main")
    /\ comp = "Compressor"
    /\ pc' = [pc EXCEPT !["main"] = << "update" >>]
    /\ ui' = [ui EXCEPT !["main"] = 1]
    /\ hist' = [hist EXCEPT !["main"] = NewCall("update")]
    /\ trace' = [trace EXCEPT !["main"] = << >>]
    /\ exc' = [exc EXCEPT !["main"] = "none"]
    /\ UNCHANGED << otherVars, hw_state, software_rev, inverter, state,
                    error_code, hardware_lock, cyc, mixed >>

\* the inverter modes a constructed Compressor can have: None, "internal"
\* (given, or detected on version 3), or an "rs485..." string
InverterModes == {"None", "internal", "rs485", "rs485_ethernet"}

\* the address attributes are those of the detected version; the errors
\* property has not been read; no Inverter object has an open transport
InitAttributes ==
    /\ register_map = software_rev
    /\ errors = << >>
    /\ Inverter_client = "None"

\* the threads are idle and nothing is recorded
InitThreads ==
    /\ pc = [t \in Threads |-> << >>]
    /\ ui = [t \in Threads |-> 1]
    /\ trace = [t \in Threads |-> << >>]
    /\ hist = [t \in Threads |-> NoCall]
    /\ exc = [t \in Threads |-> "none"]
    /\ hardware_lock = "free"
    /\ cyc = [t \in Threads |-> "none"]
    /\ mixed = {}

\* no Inverter object
InitNoInverter ==
    /\ freq = 0
    /\ frequency_setting = 0
    /\ hw_inv_set = 0
    /\ attempt = 0

\* no CompressorInterface object
InitNoInterface ==
    /\ inverter_config = "absent"
    /\ hardware = "None"
    /\ hardware_error = "No connection attempted"
    /\ comm_status = "none"
    /\ gi = 0
    /\ message = "none"

\* no update() attempted in the cycle
NoUpdates == [compressor |-> << >>, inverter |-> << >>]

\* no CompressorSmaxService object
InitNoService ==
    /\ compressor = "None"
    /\ compressor_error = FALSE
    /\ compressor_comms_status = "none"
    /\ compressor_data = 0
    /\ inverter_comms_status = "none"
    /\ updates = NoUpdates
    /\ io_failures = 0

\* a constructed Compressor: the register map is selected and update() has
\* filled the cache from the device
InitCompressor ==
    /\ hw_state \in HwStates
    /\ software_rev \in FwVersions
    /\ inverter \in {"None", "internal", "rs485_ethernet"}
    /\ inverter = "internal" => software_rev = FW_V3
    /\ state = hw_state
    /\ error_code \in ErrCodes
    /\ comp = "Compressor"

Init ==
    /\ InitCompressor
    /\ InitThreads
    /\ InitAttributes
    /\ InitNoInverter
    /\ InitNoInterface
    /\ InitNoService

Next ==
    \/ HwStep
    \/ call_on
    \/ call_off
    \/ call_update
    \/ CompressorStep("main")

Spec == Init /\ [][Next]_vars

----------------------------------------------------------------------------
(* Inverter: set_frequency, _set_frequency, _get_frequency_setting,        *)
(* _read_registers.  Frequencies are requested in Hz as floats; the model  *)
(* enumerates them in millihertz.                                          *)

\* int(freq * 100) for a frequency given in millihertz
Hundredths(mhz) == mhz \div 10

\* f = int(freq * 100); if f > 7000 or f < 4000: raise ValueError(...)
\* else: self._set_frequency(f)
set_frequency(t) ==
    /\ At(t, "set_frequency")
    /\ IF Hundredths(freq) > INV_F_MAX \/ Hundredths(freq) < INV_F_MIN
       THEN Raise(t, "ValueError", FALSE) /\ Outcome(t, "rejected")
       ELSE Goto(t, "_set_frequency", FALSE) /\ hist' = hist
    /\ UNCHANGED << hw_state, software_rev, inverter, state, error_code, ui,
                    trace, invVars, ifaceVars, apiVars, svcVars >>

\* response = self._client.write_register(self._frequency_control_addr,
\* freq, count=1, unit=1): the response is not examined; the device stores
\* the value when the write reaches it
_set_frequency(t) ==
    /\ At(t, "_set_frequency")
    /\ Log(t, Ev("write", "frequency_control", Hundredths(freq)))
    /\ \E res \in {"ok", "error_reply", "raise"} :
          /\ hw_inv_set' = IF res = "ok" THEN Hundredths(freq) ELSE hw_inv_set
          /\ IF res = "raise"
             THEN Raise(t, "ModbusException", TRUE) /\ Outcome(t, "write_error")
             ELSE Goto(t, "_set_delay", TRUE) /\ hist' = hist
    /\ UNCHANGED << hw_state, software_rev, inverter, state, error_code, ui,
                    freq, frequency_setting, attempt, ifaceVars, apiVars, svcVars >>

\* sleep(self._set_delay); self._get_frequency_setting()
_set_delay(t) ==
    /\ At(t, "_set_delay")
    /\ Log(t, Ev("sleep", "set_delay", 0))
    /\ Goto(t, "_read_registers", FALSE)
    /\ attempt' = 1
    /\ UNCHANGED << hw_state, software_rev, inverter, state, error_code, ui,
                    hist, freq, frequency_setting, hw_inv_set, ifaceVars,
                    apiVars, svcVars >>

\* what the transport can answer to read_holding_registers: the registers
\* asked for; a ModbusIOException (returned as the result, and raised by
\* _read_registers); a well-formed error reply; or an exception of another
\* kind raised by the transport
ReadReplies == {"ok", "io_error", "error_reply", "raise"}

\* a variant of _read_registers whose retry test accepts every failure
_read_registers_retry_any(t) ==
    /\ At(t, "_read_registers")
    /\ \E res \in ReadReplies, hi \in {0, 1} :
          /\ LogAll(t, << Ev("read", "frequency_control", attempt),
                          Ev("reply", res, attempt) >>)
          /\ CASE res = "ok" ->
                 /\ frequency_setting' = hw_inv_set + 65536 * hi
                 /\ Return(t, TRUE) /\ Outcome(t, "ok")
                 /\ attempt' = attempt
            [] res # "ok" /\ attempt < STOP_MAX_ATTEMPT ->
                 /\ Goto(t, "_read_registers", TRUE)
                 /\ attempt' = attempt + 1
                 /\ UNCHANGED << frequency_setting, hist >>
            [] OTHER ->
                 /\ Raise(t, IF res = "io_error" THEN "ModbusIOException"
                                                 ELSE "Exception", TRUE)
                 /\ Outcome(t, "read_error")
                 /\ UNCHANGED << frequency_setting, attempt >>
    /\ UNCHANGED << hw_state, software_rev, inverter, state, error_code, ui,
                    freq, hw_inv_set, ifaceVars, apiVars, svcVars >>

\* _get_frequency_setting: r = self._read_registers(addr, count=2, unit=1)
\* under @retry(retry_on_exception=_is_modbus_io_error,
\* stop_max_attempt_number=5): a ModbusIOException is retried until the
\* fifth attempt, whose exception is raised to the caller; an error reply
\* is returned as it is, and has no registers to convert; any other
\* exception is raised at once.  On an answer the two registers are
\* converted as one INT32, low word first (the word after the one
\* _set_frequency wrote is whatever the device holds there), and
\* set_frequency returns self.frequency
_read_registers(t) ==
    /\ At(t, "_read_registers")
    /\ \E res \in ReadReplies, hi \in {0, 1} :
          /\ LogAll(t, << Ev("read", "frequency_control", attempt),
                          Ev("reply", res, attempt) >>)
          /\ CASE res = "ok" ->
                 /\ frequency_setting' = hw_inv_set + 65536 * hi
                 /\ Return(t, TRUE) /\ Outcome(t, "ok")
                 /\ attempt' = attempt
            [] res = "io_error" /\ attempt < STOP_MAX_ATTEMPT ->
                 /\ Goto(t, "_read_registers", TRUE)
                 /\ attempt' = attempt + 1
                 /\ UNCHANGED << frequency_setting, hist >>
            [] OTHER ->
                 /\ Raise(t, IF res = "io_error" THEN "ModbusIOException"
                                                 ELSE "Exception", TRUE)
                 /\ Outcome(t, "read_error")
                 /\ UNCHANGED << frequency_setting, attempt >>
    /\ UNCHANGED << hw_state, software_rev, inverter, state, error_code, ui,
                    freq, hw_inv_set, ifaceVars, apiVars, svcVars >>

InverterStep(t) ==
    \/ set_frequency(t)
    \/ _set_frequency(t)
    \/ _set_delay(t)
    \/ _read_registers(t)

\* the frequencies requested, in millihertz: around both limits of the
\* range, and one in the middle
FreqInputs ==
    { 1000 * CB_F_MIN + d : d \in (0 - FreqSpan) .. FreqSpan }
    \cup { 1000 * CB_F_MAX + d : d \in (0 - FreqSpan) .. FreqSpan }
    \cup { 500 * (CB_F_MIN + CB_F_MAX) }

\* inverter.set_frequency(f)
call_set_frequency ==
    /\ Idle("main")
    /\ \E f \in FreqInputs : freq' = f
    /\ pc' = [pc EXCEPT !["main"] = << "set_frequency" >>]
    /\ hist' = [hist EXCEPT !["main"] = NewCall("set_frequency")]
    /\ trace' = [trace EXCEPT !["main"] = << >>]
    /\ exc' = [exc EXCEPT !["main"] = "none"]
    /\ UNCHANGED << hw_state, software_rev, inverter, state, error_code, ui,
                    hardware_lock, cyc, mixed, frequency_setting,
                    hw_inv_set, attempt, ifaceVars, apiVars, svcVars >>

\* an Inverter object with an open transport, and no Compressor
InitInv ==
    /\ hw_state = ST_READY
    /\ software_rev = FW_V3
    /\ inverter = "None"
    /\ state = ST_READY
    /\ error_code = 0
    /\ comp = "None"
    /\ InitThreads
    /\ register_map = software_rev
    /\ errors = << >>
    /\ Inverter_client = "open"
    /\ freq = 0
    /\ frequency_setting = 0
    /\ hw_inv_set \in {INV_F_MIN, INV_F_MAX}
    /\ attempt = 0
    /\ InitNoInterface
    /\ InitNoService

NextInv ==
    \/ call_set_frequency
    \/ InverterStep("main")

SpecInv == InitInv /\ [][NextInv]_vars

----------------------------------------------------------------------------
(* CompressorInterface (smax-daemon/compressor_interface.py): the polling  *)
(* loop calls logging_action on thread "poll"; notifications are delivered *)
(* to the callbacks on thread "cmd".                                       *)

\* enter a "with self._hardware_lock" block (the thread waits until the
\* lock is free) and go on with stack s
Lock(t, s) ==
    /\ hardware_lock = "free"
    /\ hardware_lock' = t
    /\ pc' = [pc EXCEPT ![t] = s]
    /\ UNCHANGED << cyc, mixed, exc >>

\* the top-level operation of thread t is over; unlock: it leaves a with
\* block on the way
Finish(t, unlock) ==
    /\ Step(t, << >>, FALSE, unlock)
    /\ trace' = [trace EXCEPT ![t] = << >>]
    /\ hist' = [hist EXCEPT ![t] = NoCall]
    /\ exc' = [exc EXCEPT ![t] = "none"]

\* the statement at the head of the stack raises e inside the try block of
\* its own function, whose except clause is at position l
RaiseHere(t, e, l, touch) ==
    /\ Step(t, << l >> \o Tail(pc[t]), touch, hardware_lock = t)
    /\ exc' = [exc EXCEPT ![t] = e]

\* the registers whose addresses are class attributes of Compressor
class_registers == [serial |-> 31, model |-> 32, software |-> 33]

\* the "inverter" section of the hardware configuration: absent, present
\* without a type, or present with an "inverter_type"
InverterConfigs == {"absent", "untyped", "internal", "rs485", "rs485_ethernet"}

\* inverter = self._inverter_config.get("inverter_type", None)
ConfiguredInverter(c) == IF c = "untyped" THEN "None" ELSE c

\* the frequencies commanded through the daemon, in millihertz
FreqCmds ==
    { 1000 * CB_F_MIN - 1, 1000 * CB_F_MIN, 1000 * CB_F_MAX,
      1000 * CB_F_MAX + 1 }

\* the record of a logging_action call: the transport events of the cycle
\* are kept until it returns
CycleCall == [NoCall EXCEPT !.m = "logging_action", !.ret = "running"]

\* logging_action() is entered, with h the record kept of the call:
\* if self._hardware is None: self.connect_hardware()
\* if self._hardware: try: with self._hardware_lock: ...
logging_action_call(h) ==
    /\ Idle("poll")
    /\ pc' = [pc EXCEPT !["poll"] =
                 IF hardware = "None" THEN << "connect_hardware", "la_connected" >>
                                      ELSE << "la_lock" >>]
    /\ comm_status' = "none"
    /\ hist' = [hist EXCEPT !["poll"] = h]
    /\ UNCHANGED << hw_state, software_rev, inverter, state, error_code, ui,
                    trace, exc, hardware_lock, cyc, mixed,
                    invVars, apiVars, svcVars, inverter_config, hardware,
                    hardware_error, gi, message >>

\* the polling loop calls logging_action()
logging_action == logging_action_call(NoCall)

\* the polling loop calls logging_action(), and the transport events of the
\* cycle are recorded
logging_action_recorded == logging_action_call(CycleCall)

\* connect_hardware: try: with self._hardware_lock:
connect_hardware(t) ==
    /\ At(t, "connect_hardware")
    /\ Lock(t, << "ch_construct" >> \o Tail(pc[t]))
    /\ UNCHANGED << hw_state, software_rev, inverter, state, error_code, ui,
                    trace, hist, otherVars >>

\* self._hardware = Compressor(..., inverter = self._inverter_config.get(
\* "inverter_type", None), ...): the arguments are evaluated, with
\* self._inverter_config None when the configuration has no inverter
\* section, and Compressor.__init__ is entered
ch_construct(t) ==
    /\ At(t, "ch_construct")
    /\ IF inverter_config = "absent"
       THEN /\ RaiseHere(t, "AttributeError", "ch_except", FALSE)
            /\ inverter' = inverter
       ELSE /\ Call(t, "ch_connected", "init_serial")
            /\ inverter' = ConfiguredInverter(inverter_config)
    /\ UNCHANGED << hw_state, software_rev, state, error_code, ui, trace,
                    hist, otherVars >>

\* Compressor.__init__: self._serial = self.get_serial()
init_serial(t) ==
    /\ At(t, "init_serial")
    /\ Log(t, Ev("read", "serial", class_registers.serial))
    /\ \E ok \in BOOLEAN :
          IF ok THEN Goto(t, "init_model", TRUE)
                ELSE Raise(t, "AttributeError", TRUE)
    /\ UNCHANGED << hw_state, software_rev, inverter, state, error_code, ui,
                    hist, otherVars >>

\* Compressor.__init__: self._model = self.get_model()
init_model(t) ==
    /\ At(t, "init_model")
    /\ Log(t, Ev("read", "model", class_registers.model))
    /\ \E ok \in BOOLEAN :
          IF ok THEN Goto(t, "init_software_rev", TRUE)
                ELSE Raise(t, "AttributeError", TRUE)
    /\ UNCHANGED << hw_state, software_rev, inverter, state, error_code, ui,
                    hist, otherVars >>

\* Compressor.__init__: self.get_software_rev(); the register map is
\* selected from the version read; on version 3 the model read before may
\* be "CPA28I6", which sets self._inverter = "internal"; the cached fields
\* get their defaults; self.update() is called
init_software_rev(t) ==
    /\ At(t, "init_software_rev")
    /\ Log(t, Ev("read", "software", class_registers.software))
    /\ \E ok \in BOOLEAN, fw \in FwVersions, cpa28i6 \in BOOLEAN :
          IF ok
          THEN /\ software_rev' = fw
               /\ register_map' = fw
               /\ inverter' = IF fw = FW_V3 /\ cpa28i6 THEN "internal"
                                                       ELSE inverter
               /\ state' = ST_READY
               /\ error_code' = 0
               /\ ui' = [ui EXCEPT ![t] = 1]
               /\ Step(t, << "update", "init_press_scale" >> \o Tail(pc[t]),
                       TRUE, FALSE)
               /\ exc' = exc
          ELSE /\ Raise(t, "RuntimeError", TRUE)
               /\ UNCHANGED << software_rev, register_map, inverter, state,
                               error_code, ui >>
    /\ UNCHANGED << hw_state, hist, invVars, ifaceVars, svcVars, comp,
                    errors, Inverter_client >>

\* Compressor.__init__: self._press_scale = self.get_pressure_scale()
init_press_scale(t) ==
    /\ At(t, "init_press_scale")
    /\ Log(t, ReadEv("press_unit"))
    /\ \E ok \in ReadOutcomes("press_unit") :
          IF ok THEN Goto(t, "init_temp_scale", TRUE)
                ELSE Raise(t, "RuntimeError", TRUE)
    /\ UNCHANGED << hw_state, software_rev, inverter, state, error_code, ui,
                    hist, otherVars >>

\* Compressor.__init__: self._temp_scale = self.get_temperature_scale();
\* the constructor returns
init_temp_scale(t) ==
    /\ At(t, "init_temp_scale")
    /\ Log(t, ReadEv("temp_unit"))
    /\ \E ok \in ReadOutcomes("temp_unit") :
          IF ok THEN Return(t, TRUE)
                ELSE Raise(t, "RuntimeError", TRUE)
    /\ UNCHANGED << hw_state, software_rev, inverter, state, error_code, ui,
                    hist, otherVars >>

\* self._hardware = <the new object>; self._hardware_error = "None";
\* self.configure_hardware raises AttributeError, which is passed over; the
\* with block ends
ch_connected(t) ==
    /\ At(t, "ch_connected")
    /\ hardware' = "Compressor"
    /\ hardware_error' = "None"
    /\ Step(t, Tail(pc[t]), FALSE, TRUE)
    /\ exc' = exc
    /\ UNCHANGED << hw_state, software_rev, inverter, state, error_code, ui,
                    trace, hist, invVars, apiVars, svcVars, inverter_config,
                    comm_status, gi, message >>

\* except Exception as e: self._hardware = None;
\* self._hardware_error = repr(e)
ch_except(t) ==
    /\ At(t, "ch_except")
    /\ hardware' = "None"
    /\ hardware_error' = exc[t]
    /\ Return(t, FALSE)
    /\ UNCHANGED << hw_state, software_rev, inverter, state, error_code, ui,
                    trace, hist, invVars, apiVars, svcVars, inverter_config,
                    comm_status, gi, message >>

\* if self._hardware: ... else: logged_data = {'comm_status':
\* "connection error", 'comm_error': "Not Connected"}
la_connected(t) ==
    /\ At(t, "la_connected")
    /\ IF hardware # "None"
       THEN /\ Goto(t, "la_lock", FALSE)
            /\ UNCHANGED << comm_status, trace, hist >>
       ELSE /\ Finish(t, FALSE)
            /\ comm_status' = "connection error"
    /\ UNCHANGED << hw_state, software_rev, inverter, state, error_code, ui,
                    invVars, apiVars, svcVars, inverter_config, hardware,
                    hardware_error, gi, message >>

\* try: with self._hardware_lock: self._hardware.update()
la_lock(t) ==
    /\ At(t, "la_lock")
    /\ Lock(t, << "update", "la_getters" >> \o Tail(pc[t]))
    /\ ui' = [ui EXCEPT ![t] = 1]
    /\ gi' = 1
    /\ UNCHANGED << hw_state, software_rev, inverter, state, error_code,
                    trace, hist, invVars, apiVars, svcVars, inverter_config, hardware,
                    hardware_error, comm_status, message >>

\* for data in self._hardware_data.keys(): an entry names a cached
\* attribute, or a method that is called and reads a register; after the
\* last entry the with block ends and comm_status is "good"
la_getters(t) ==
    /\ At(t, "la_getters")
    /\ IF gi > MaxLogged
       THEN /\ Finish(t, TRUE)
            /\ comm_status' = "good"
            /\ gi' = 0
       ELSE /\ comm_status' = comm_status
            /\ hist' = hist
            /\ \E method \in BOOLEAN, ok \in BOOLEAN :
                  IF ~method
                  THEN /\ Goto(t, "la_getters", FALSE)
                       /\ gi' = gi + 1
                       /\ trace' = trace
                  ELSE /\ Log(t, ReadEv("hours"))
                       /\ IF ok
                          THEN Goto(t, "la_getters", TRUE) /\ gi' = gi + 1
                          ELSE /\ RaiseHere(t, "RuntimeError", "la_except", TRUE)
                               /\ gi' = gi
    /\ UNCHANGED << hw_state, software_rev, inverter, state, error_code, ui,
                    invVars, apiVars, svcVars, inverter_config, hardware,
                    hardware_error, message >>

\* a variant of la_except that reconnects at once, inside the same
\* logging_action
la_except_reconnect(t) ==
    /\ At(t, "la_except")
    /\ hardware' = "None"
    /\ comm_status' = "connection error"
    /\ gi' = 0
    /\ Step(t, << "connect_hardware", "la_connected" >>, FALSE, FALSE)
    /\ exc' = exc
    /\ UNCHANGED << hw_state, software_rev, inverter, state, error_code, ui,
                    trace, hist, invVars, apiVars, svcVars, inverter_config,
                    hardware_error, message >>

\* except Exception as e: self._hardware = None;
\* logged_data = {'comm_status': 'connection error'}
la_except(t) ==
    /\ At(t, "la_except")
    /\ hardware' = "None"
    /\ comm_status' = "connection error"
    /\ gi' = 0
    /\ Finish(t, FALSE)
    /\ UNCHANGED << hw_state, software_rev, inverter, state, error_code, ui,
                    invVars, apiVars, svcVars, inverter_config, hardware_error,
                    message >>

\* a notification on the compressor control key: compressor_control_callback
\* if self._hardware: ... else: (the notification is logged only)
compressor_control_callback ==
    /\ Idle("cmd")
    /\ IF hardware # "None"
       THEN /\ \E data \in {"on", "off"} : message' = data
            /\ pc' = [pc EXCEPT !["cmd"] = << "cc_lock" >>]
       ELSE UNCHANGED << message, pc >>
    /\ UNCHANGED << hw_state, software_rev, inverter, state, error_code, ui,
                    trace, hist, exc, hardware_lock, cyc, mixed,
                    invVars, apiVars, svcVars, inverter_config, hardware,
                    hardware_error, comm_status, gi >>

\* a variant of cc_lock that does not take the lock
cc_lock_unlocked(t) ==
    /\ At(t, "cc_lock")
    /\ IF hardware = "None"
       THEN /\ RaiseHere(t, "AttributeError", "cc_except", FALSE)
            /\ hist' = hist
       ELSE /\ Call(t, "cc_done",
                    IF message = "on" THEN "on_write" ELSE "off_write")
            /\ hist' = hist
    /\ UNCHANGED << hw_state, software_rev, inverter, state, error_code, ui,
                    trace, otherVars >>

\* try: with self._hardware_lock: if message.data: self._hardware.on()
\* else: self._hardware.off(); self._hardware may have become None since
\* it was tested
cc_lock(t) ==
    /\ At(t, "cc_lock")
    /\ hardware_lock = "free"
    /\ IF hardware = "None"
       THEN /\ RaiseHere(t, "AttributeError", "cc_except", FALSE)
            /\ hist' = hist
       ELSE /\ Lock(t, << IF message = "on" THEN "on_write" ELSE "off_write",
                          "cc_done" >> \o Tail(pc[t]))
            /\ hist' = hist
    /\ UNCHANGED << hw_state, software_rev, inverter, state, error_code, ui,
                    trace, otherVars >>

\* the with block ends; the callback returns
cc_done(t) ==
    /\ At(t, "cc_done")
    /\ Finish(t, TRUE)
    /\ message' = "none"
    /\ UNCHANGED << hw_state, software_rev, inverter, state, error_code, ui,
                    invVars, apiVars, svcVars, inverter_config, hardware,
                    hardware_error, comm_status, gi >>

\* a variant of cc_except that discards the hardware, as the except clause
\* of logging_action does
cc_except_discards(t) ==
    /\ At(t, "cc_except")
    /\ hardware' = "None"
    /\ hardware_error' = exc[t]
    /\ Finish(t, FALSE)
    /\ message' = "none"
    /\ UNCHANGED << hw_state, software_rev, inverter, state, error_code, ui,
                    invVars, apiVars, svcVars, inverter_config, comm_status,
                    gi >>

\* except Exception as e: self._hardware_error = repr(e)
cc_except(t) ==
    /\ At(t, "cc_except")
    /\ hardware_error' = exc[t]
    /\ Finish(t, FALSE)
    /\ message' = "none"
    /\ UNCHANGED << hw_state, software_rev, inverter, state, error_code, ui,
                    invVars, apiVars, svcVars, inverter_config, hardware, comm_status,
                    gi >>

\* the record of a frequency command that passed the range test of its
\* callback: the transport events of the call are kept until it returns
CommandCall == [NoCall EXCEPT !.m = "frequency_control_callback",
                              !.ret = "running"]

\* the data of a notification on the frequency control key: a text that
\* float() converts to a number of millihertz, or one it does not convert
FreqMessages ==
    { [numeric |-> TRUE, mhz |-> f] : f \in FreqCmds }
      \cup { [numeric |-> FALSE, mhz |-> 0] }

\* a variant of Rejection without the test of the upper limit
Rejection_no_upper(d) ==
    IF ~d.numeric THEN "not_a_number"
    ELSE IF d.mhz < 1000 * CB_F_MIN THEN "too_low"
    ELSE "none"

\* data = float(message.data) raises ValueError for a text that is not a
\* number; if data < 40.0: raise ValueError; if data > 70.0: raise
\* ValueError
Rejection(d) ==
    IF ~d.numeric THEN "not_a_number"
    ELSE IF d.mhz < 1000 * CB_F_MIN THEN "too_low"
    ELSE IF d.mhz > 1000 * CB_F_MAX THEN "too_high"
    ELSE "none"

\* a notification on the frequency control key: frequency_control_callback
\* data = float(message.data); if data < 40.0: raise ValueError; if
\* data > 70.0: raise ValueError; except ValueError: return;
\* if self._hardware: ... else: (the notification is logged only)
frequency_control_callback ==
    /\ Idle("cmd")
    /\ \E d \in FreqMessages :
          IF Rejection(d) # "none"
          THEN /\ pc' = [pc EXCEPT !["cmd"] = << "fc_rejected" >>]
               /\ hist' = [hist EXCEPT !["cmd"] =
                              [CommandCall EXCEPT !.ret = Rejection(d)]]
               /\ freq' = freq
          ELSE IF hardware = "None"
          THEN UNCHANGED << freq, pc, hist >>
          ELSE /\ freq' = d.mhz
               /\ pc' = [pc EXCEPT !["cmd"] = << "fc_lock" >>]
               /\ hist' = [hist EXCEPT !["cmd"] = CommandCall]
    /\ UNCHANGED << hw_state, software_rev, inverter, state, error_code, ui,
                    trace, exc, hardware_lock, cyc, mixed,
                    frequency_setting, hw_inv_set, attempt, ifaceVars,
                    apiVars, svcVars >>

\* except ValueError as e: self.logger.info(...); return
fc_rejected(t) ==
    /\ At(t, "fc_rejected")
    /\ Finish(t, FALSE)
    /\ UNCHANGED << hw_state, software_rev, inverter, state, error_code, ui,
                    otherVars >>

\* try: with self._hardware_lock: self._hardware.set_inverter_freq(data)
fc_lock(t) ==
    /\ At(t, "fc_lock")
    /\ hardware_lock = "free"
    /\ IF hardware = "None"
       THEN RaiseHere(t, "AttributeError", "fc_except", FALSE)
       ELSE Lock(t, << "set_inverter_freq", "fc_done" >> \o Tail(pc[t]))
    /\ UNCHANGED << hw_state, software_rev, inverter, state, error_code, ui,
                    trace, hist, otherVars >>

\* Compressor.set_inverter_freq: None: return None; "internal":
\* self._client.write_registers(self._inverter_set_freq_addr,
\* int(freq*10), slave=1), the reply is not examined; "rs485":
\* self._inverterclient is not an attribute of the object; any other
\* string: return None
set_inverter_freq(t) ==
    /\ At(t, "set_inverter_freq")
    /\ CASE inverter = "internal" ->
              /\ Log(t, Ev("write", "inverter_set_freq", freq \div 100))
              /\ Goto(t, "sif_get", TRUE)
         [] inverter = "rs485" ->
              /\ Raise(t, "AttributeError", FALSE)
              /\ trace' = trace
         [] OTHER ->
              /\ Return(t, FALSE)
              /\ trace' = trace
    /\ UNCHANGED << hw_state, software_rev, inverter, state, error_code, ui,
                    hist, otherVars >>

\* self._get_inverter_freq_setting() of an internal inverter:
\* self._read_int16(self._inverter_set_freq_addr)
sif_get(t) ==
    /\ At(t, "sif_get")
    /\ Log(t, ReadEv("inverter_set_freq"))
    /\ \E ok \in ReadOutcomes("inverter_set_freq") :
          IF ok THEN Return(t, TRUE)
                ELSE Raise(t, "RuntimeError", Present("inverter_set_freq"))
    /\ UNCHANGED << hw_state, software_rev, inverter, state, error_code, ui,
                    hist, otherVars >>

\* the with block ends; the callback returns
fc_done(t) ==
    /\ At(t, "fc_done")
    /\ Finish(t, TRUE)
    /\ freq' = 0
    /\ UNCHANGED << hw_state, software_rev, inverter, state, error_code, ui,
                    frequency_setting, hw_inv_set, attempt, ifaceVars,
                    apiVars, svcVars >>

\* except Exception as e: self._hardware_error = repr(e)
fc_except(t) ==
    /\ At(t, "fc_except")
    /\ hardware_error' = exc[t]
    /\ Finish(t, FALSE)
    /\ freq' = 0
    /\ UNCHANGED << hw_state, software_rev, inverter, state, error_code, ui,
                    frequency_setting, hw_inv_set, attempt, apiVars, svcVars,
                    inverter_config, hardware, comm_status, gi, message >>

\* a CompressorInterface whose connection attempt has failed: the next
\* logging_action reconnects
InitIface ==
    /\ hw_state \in HwStates
    /\ software_rev = FW_V2
    /\ inverter = "None"
    /\ state = ST_READY
    /\ error_code = 0
    /\ comp = "None"
    /\ InitThreads
    /\ InitAttributes
    /\ InitNoInverter
    /\ InitNoService
    /\ inverter_config \in InverterConfigs
    /\ hardware = "None"
    /\ hardware_error = "RuntimeError"
    /\ comm_status = "none"
    /\ gi = 0
    /\ message = "none"

NextIface ==
    \/ HwStep
    \/ logging_action
    \/ connect_hardware("poll") \/ ch_construct("poll")
    \/ init_serial("poll") \/ init_model("poll") \/ init_software_rev("poll")
    \/ update("poll")
    \/ init_press_scale("poll") \/ init_temp_scale("poll")
    \/ ch_connected("poll") \/ ch_except("poll")
    \/ la_connected("poll") \/ la_lock("poll") \/ la_getters("poll")
    \/ la_except("poll")
    \/ compressor_control_callback
    \/ cc_lock("cmd") \/ cc_done("cmd") \/ cc_except("cmd")
    \/ CompressorStep("cmd")
    \/ frequency_control_callback
    \/ fc_rejected("cmd")
    \/ fc_lock("cmd") \/ set_inverter_freq("cmd")
    \/ sif_get("cmd") \/ fc_done("cmd") \/ fc_except("cmd")

SpecIface == InitIface /\ [][NextIface]_vars

----------------------------------------------------------------------------
(* The polling loop of a daemon built on CompressorInterface, alone, with a *)
(* device that from some time on answers every request                     *)

\* the steps of the polling thread: each logging_action call and what it
\* calls
IfaceCycle ==
    \/ logging_action
    \/ connect_hardware("poll") \/ ch_construct("poll")
    \/ init_serial("poll") \/ init_model("poll") \/ init_software_rev("poll")
    \/ update("poll")
    \/ init_press_scale("poll") \/ init_temp_scale("poll")
    \/ ch_connected("poll") \/ ch_except("poll")
    \/ la_connected("poll") \/ la_lock("poll") \/ la_getters("poll")
    \/ la_except("poll")

\* the positions whose statement raises only when the transport fails
TransportLabels ==
    { "init_serial", "init_model", "init_software_rev", "init_press_scale",
      "init_temp_scale", "la_getters" }

\* a step of thread t in which a read fails: the statement raises, in
\* update() with the RuntimeError of a read that was not answered
TransportFailure(t) ==
    /\ pc[t] # << >>
    /\ exc[t] = "none"
    /\ exc'[t] # "none"
    /\ \/ Head(pc[t]) \in TransportLabels
       \/ Head(pc[t]) = "update" /\ exc'[t] = "RuntimeError"

NextHealthy ==
    \/ HwStep
    \/ IfaceCycle

\* the polling loop keeps calling logging_action and every step of it
\* ends; from some time on no read fails
SpecHealthy ==
    /\ InitIface
    /\ [][NextHealthy]_vars
    /\ WF_vars(IfaceCycle)
    /\ <>[][\A t \in Threads : ~TransportFailure(t)]_vars

\* the polling loop alone, with the transport events of each cycle recorded
NextPoll ==
    \/ HwStep
    \/ logging_action_recorded
    \/ connect_hardware("poll") \/ ch_construct("poll")
    \/ init_serial("poll") \/ init_model("poll") \/ init_software_rev("poll")
    \/ update("poll")
    \/ init_press_scale("poll") \/ init_temp_scale("poll")
    \/ ch_connected("poll") \/ ch_except("poll")
    \/ la_connected("poll") \/ la_lock("poll") \/ la_getters("poll")
    \/ la_except("poll")

SpecPoll == InitIface /\ [][NextPoll]_vars

----------------------------------------------------------------------------
(* CompressorSmaxService (smax-daemon/compressor-smax-daemon.py): run()    *)
(* calls smax_logging_action on thread "poll"; the SMA-X client delivers   *)
(* notifications to compressor_power_control_callback on thread "cmd".     *)
(* The class has no lock.  self.inverter is always None (Inverter.__init__ *)
(* calls update() before any transport exists), so the inverter branches   *)
(* are skipped and inverter_freq_control_callback is never subscribed.     *)

\* Inverter.__init__: self._client = None; ...; self.update(), whose first
\* read calls self._client.read_holding_registers: the AttributeError is
\* not one the retry decorator retries, and leaves the constructor
Inverter_init ==
    LET _client == "None"
    IN  IF _client = "None" THEN "AttributeError" ELSE "constructed"

\* create_inverter: try: self.inverter = Inverter(...) except Exception:
\* (logged); self.inverter keeps the None of __init__
service_inverter == IF Inverter_init = "constructed" THEN "Inverter" ELSE "None"

\* smax_logging_action: inverter_error = False; it is set only inside
\* "if self.inverter:"
inverter_error == FALSE

\* smax_logging_action(), entered while the inverter's transport would
\* answer a read after k transient I/O failures: logged_data = {};
\* compressor_error = False; try: self.compressor.update()
logging_cycle(k) ==
    /\ Idle("poll")
    /\ io_failures' = k
    /\ compressor_error' = FALSE
    /\ compressor_comms_status' = "none"
    /\ inverter_comms_status' = "none"
    /\ updates' = NoUpdates
    /\ pc' = [pc EXCEPT !["poll"] =
                 IF compressor = "None" THEN << "sl_comp_retry" >>
                                        ELSE << "update", "sl_comp_after1" >>]
    /\ exc' = exc
    /\ UNCHANGED << hw_state, software_rev, inverter, state, error_code, ui,
                    trace, hist, hardware_lock, cyc, mixed, invVars,
                    ifaceVars, apiVars, compressor, compressor_data >>

\* run(): self.smax_logging_action()
smax_logging_action == logging_cycle(io_failures)

\* the outcome r of an update() attempt of device d
Attempted(d, r) == updates' = [updates EXCEPT ![d] = Append(@, r)]

\* the first update() returned; if self.inverter: (skipped)
sl_comp_after1(t) ==
    /\ At(t, "sl_comp_after1")
    /\ Goto(t, "sl_publish", FALSE)
    /\ Attempted("compressor", "ok")
    /\ UNCHANGED << hw_state, software_rev, inverter, state, error_code, ui,
                    trace, hist, invVars, ifaceVars, apiVars, compressor,
                    compressor_error, compressor_comms_status,
                    compressor_data, inverter_comms_status, io_failures >>

\* except: (any exception, which is dropped) time.sleep(0.5);
\* try: self.compressor.update()
sl_comp_retry(t) ==
    /\ At(t, "sl_comp_retry")
    /\ Log(t, Ev("sleep", "retry", 0))
    /\ Step(t, IF compressor = "None"
               THEN << "sl_comp_failed" >> \o Tail(pc[t])
               ELSE << "update", "sl_comp_after2" >> \o Tail(pc[t]),
            FALSE, FALSE)
    /\ exc' = [exc EXCEPT ![t] = "none"]
    /\ Attempted("compressor", "failed")
    /\ UNCHANGED << hw_state, software_rev, inverter, state, error_code, ui,
                    hist, invVars, ifaceVars, apiVars, compressor, compressor_error,
                    compressor_comms_status, compressor_data,
                    inverter_comms_status, io_failures >>

\* the second update() returned; if self.inverter: (skipped)
sl_comp_after2(t) ==
    /\ At(t, "sl_comp_after2")
    /\ Goto(t, "sl_publish", FALSE)
    /\ Attempted("compressor", "ok")
    /\ UNCHANGED << hw_state, software_rev, inverter, state, error_code, ui,
                    trace, hist, invVars, ifaceVars, apiVars, compressor,
                    compressor_error, compressor_comms_status,
                    compressor_data, inverter_comms_status, io_failures >>

\* except: (any exception, which is dropped) compressor_error = True;
\* if self.inverter: (skipped)
sl_comp_failed(t) ==
    /\ At(t, "sl_comp_failed")
    /\ compressor_error' = TRUE
    /\ Step(t, << "sl_publish" >> \o Tail(pc[t]), FALSE, FALSE)
    /\ exc' = [exc EXCEPT ![t] = "none"]
    /\ Attempted("compressor", "failed")
    /\ UNCHANGED << hw_state, software_rev, inverter, state, error_code, ui,
                    trace, hist, invVars, ifaceVars, apiVars, compressor,
                    compressor_comms_status, compressor_data,
                    inverter_comms_status, io_failures >>

\* if not compressor_error: for data in self._compressor_data.keys(): (a
\* cached attribute is read) logged_data['compressor_comms_status'] = "good"
\* else: logged_data['compressor_comms_status'] = "stale";
\* if self.inverter: (the same for the inverter); the values are shared to
\* SMA-X; the call returns and its local flags are gone
sl_publish(t) ==
    /\ At(t, "sl_publish")
    /\ compressor_comms_status' =
          IF compressor_error THEN "stale"
          ELSE IF compressor_data = 0 THEN "omitted" ELSE "good"
    /\ inverter_comms_status' =
          IF ~Truthy(service_inverter) THEN "omitted"
          ELSE IF inverter_error THEN "stale" ELSE "good"
    /\ compressor_error' = FALSE
    /\ Finish(t, FALSE)
    /\ UNCHANGED << hw_state, software_rev, inverter, state, error_code, ui,
                    invVars, ifaceVars, apiVars, compressor, compressor_data,
                    updates, io_failures >>

\* a notification on the power control key:
\* if message.data: self.compressor.on() else: self.compressor.off(),
\* with no lock and no try
compressor_power_control_callback ==
    /\ Idle("cmd")
    /\ IF compressor = "None"
       THEN /\ pc' = [pc EXCEPT !["cmd"] = << "pcc_uncaught" >>]
            /\ exc' = [exc EXCEPT !["cmd"] = "AttributeError"]
       ELSE /\ \E data \in {"on", "off"} :
                 pc' = [pc EXCEPT !["cmd"] =
                           << IF data = "on" THEN "on_write" ELSE "off_write",
                              "pcc_done" >>]
            /\ exc' = exc
    /\ UNCHANGED << hw_state, software_rev, inverter, state, error_code, ui,
                    trace, hist, hardware_lock, cyc, mixed, otherVars >>

\* on() / off() returned; the callback returns
pcc_done(t) ==
    /\ At(t, "pcc_done")
    /\ Finish(t, FALSE)
    /\ UNCHANGED << hw_state, software_rev, inverter, state, error_code, ui,
                    otherVars >>

\* the exception leaves the callback, to the thread that delivered the
\* notification
pcc_uncaught(t) ==
    /\ At(t, "pcc_uncaught")
    /\ Finish(t, FALSE)
    /\ UNCHANGED << hw_state, software_rev, inverter, state, error_code, ui,
                    otherVars >>

\* after CompressorSmaxService.__init__: create_compressor has built the
\* Compressor (called without an inverter argument), or has failed and left
\* self.compressor None
InitSvc ==
    /\ compressor \in {"None", "Compressor"}
    /\ IF compressor = "Compressor"
       THEN InitCompressor /\ inverter \in {"None", "internal"}
       ELSE /\ hw_state \in HwStates
            /\ software_rev = FW_V2
            /\ inverter = "None"
            /\ state = ST_READY
            /\ error_code = 0
            /\ comp = "None"
    /\ InitThreads
    /\ InitAttributes
    /\ InitNoInverter
    /\ InitNoInterface
    /\ compressor_error = FALSE
    /\ compressor_comms_status = "none"
    /\ compressor_data \in {0, MaxLogged}
    /\ inverter_comms_status = "none"
    /\ updates = NoUpdates
    /\ io_failures = 0

NextSvc ==
    \/ HwStep
    \/ smax_logging_action
    \/ update("poll")
    \/ sl_comp_after1("poll") \/ sl_comp_retry("poll") \/ sl_comp_after2("poll")
    \/ sl_comp_failed("poll") \/ sl_publish("poll")
    \/ compressor_power_control_callback
    \/ CompressorStep("cmd")
    \/ pcc_done("cmd") \/ pcc_uncaught("cmd")

SpecSvc == InitSvc /\ [][NextSvc]_vars

\* The polling loop alone.  run(): while True: self.smax_logging_action();
\* time.sleep(self.logging_interval): while the loop sleeps the condition
\* of the inverter's serial link may change, so each cycle meets a link
\* that answers a read after k transient failures, for any k up to the
\* number of attempts of a retried read
run == \E k \in 0 .. STOP_MAX_ATTEMPT : logging_cycle(k)

\* the steps of the polling thread inside smax_logging_action
PollStep ==
    \/ update("poll")
    \/ sl_comp_after1("poll") \/ sl_comp_retry("poll") \/ sl_comp_after2("poll")
    \/ sl_comp_failed("poll") \/ sl_publish("poll")

NextCycle ==
    \/ HwStep
    \/ run
    \/ PollStep

\* the polling thread keeps running, and every transport operation ends
\* (with an answer, an error or a timeout)
SpecCycle == InitSvc /\ [][NextCycle]_vars /\ WF_vars(PollStep)

----------------------------------------------------------------------------
(* CompressorSmaxService.stop: run() calls it from its KeyboardInterrupt   *)
(* handler, on the polling thread                                          *)

\* Compressor._inverterclient in the Compressor the service constructs:
\* the attribute is assigned by connect_inverter only, which neither
\* __init__ nor the service calls
_inverterclient == "unset"

StopLabels == { "stop", "stop_compressor", "stop_inverter", "stop_exit",
                "stop_exited", "stop_aborted" }

\* run(): except KeyboardInterrupt: self.stop().  SIGINT arrives while the
\* loop sleeps or inside a cycle, whose remaining steps are abandoned.
KeyboardInterrupt ==
    /\ \A l \in StopLabels : ~At("poll", l)
    /\ Step("poll", << "stop" >>, FALSE, FALSE)
    /\ hist' = [hist EXCEPT !["poll"] =
                   [NoCall EXCEPT !.m = "stop", !.ret = "running"]]
    /\ trace' = [trace EXCEPT !["poll"] = << >>]
    /\ exc' = [exc EXCEPT !["poll"] = "none"]
    /\ UNCHANGED << hw_state, software_rev, inverter, state, error_code, ui,
                    otherVars >>

\* systemd.daemon.notify(STOPPING); if self.smax_client:
\* self.smax_client.smax_unsubscribe(); self.smax_client.smax_disconnect()
stop(t) ==
    /\ At(t, "stop")
    /\ LogAll(t, << Ev("call", "smax_unsubscribe", 0),
                    Ev("call", "smax_disconnect", 0) >>)
    /\ Goto(t, "stop_compressor", FALSE)
    /\ UNCHANGED << hw_state, software_rev, inverter, state, error_code, ui,
                    hist, otherVars >>

\* if self.compressor: self.compressor.disconnect(), that is
\* "if self._inverterclient: self._inverterclient.disconnect()" and then
\* "self._client.disconnect()".  Nothing in stop() or run() catches the
\* AttributeError of the missing attribute: it ends the process.
stop_compressor(t) ==
    /\ At(t, "stop_compressor")
    /\ IF compressor = "None"
       THEN /\ Goto(t, "stop_inverter", FALSE)
            /\ UNCHANGED << trace, hist >>
       ELSE IF _inverterclient = "unset"
       THEN /\ Step(t, << "stop_aborted" >>, FALSE, FALSE)
            /\ exc' = [exc EXCEPT ![t] = "AttributeError"]
            /\ Outcome(t, "raised")
            /\ trace' = trace
       ELSE /\ Log(t, Ev("call", "compressor_disconnect", 0))
            /\ Goto(t, "stop_inverter", FALSE)
            /\ hist' = hist
    /\ UNCHANGED << hw_state, software_rev, inverter, state, error_code, ui,
                    otherVars >>

\* if self.inverter: self.inverter.disconnect()
stop_inverter(t) ==
    /\ At(t, "stop_inverter")
    /\ IF service_inverter = "None"
       THEN trace' = trace
       ELSE Log(t, Ev("call", "inverter_disconnect", 0))
    /\ Goto(t, "stop_exit", FALSE)
    /\ UNCHANGED << hw_state, software_rev, inverter, state, error_code, ui,
                    hist, otherVars >>

\* sys.exit(0)
stop_exit(t) ==
    /\ At(t, "stop_exit")
    /\ Log(t, Ev("call", "exit", 0))
    /\ Goto(t, "stop_exited", FALSE)
    /\ Outcome(t, "ok")
    /\ UNCHANGED << hw_state, software_rev, inverter, state, error_code, ui,
                    otherVars >>

NextStop ==
    \/ HwStep
    \/ run
    \/ PollStep
    \/ KeyboardInterrupt
    \/ stop("poll") \/ stop_compressor("poll") \/ stop_inverter("poll")
    \/ stop_exit("poll")

SpecStop == InitSvc /\ [][NextStop]_vars

----------------------------------------------------------------------------
(* Frequency commands applied without a daemon callback: the command line  *)
(* option --freq, CompressorInterface.initialize_hardware, and any other   *)
(* direct caller of Compressor.set_inverter_freq, on thread "main"         *)

\* cli.main: elif args.freq: if comp.inverter:
\* comp.set_inverter_freq(float(args.freq)) else: print(...)
call_set_inverter_freq ==
    /\ Idle("main")
    /\ \E f \in FreqInputs :
          IF Truthy(inverter)
          THEN /\ freq' = f
               /\ pc' = [pc EXCEPT !["main"] = << "set_inverter_freq" >>]
               /\ hist' = [hist EXCEPT !["main"] = NewCall("set_inverter_freq")]
               /\ trace' = [trace EXCEPT !["main"] = << >>]
          ELSE UNCHANGED << freq, pc, hist, trace >>
    /\ exc' = [exc EXCEPT !["main"] = "none"]
    /\ UNCHANGED << hw_state, software_rev, inverter, state, error_code, ui,
                    hardware_lock, cyc, mixed, frequency_setting,
                    hw_inv_set, attempt, ifaceVars, apiVars, svcVars >>

\* CompressorInterface.initialize_hardware(kwargs): the frequency comes
\* from kwargs or from the inverter configuration (0 stands for None);
\* if kwargs["frequency"]: self._hardware.set_inverter_freq(freq), with no
\* range test and outside any with block
initialize_hardware ==
    /\ Idle("main")
    /\ hardware # "None"
    /\ \E f \in FreqInputs \cup {0} :
          IF f # 0
          THEN /\ freq' = f
               /\ pc' = [pc EXCEPT !["main"] = << "set_inverter_freq" >>]
               /\ hist' = [hist EXCEPT !["main"] = NewCall("initialize_hardware")]
               /\ trace' = [trace EXCEPT !["main"] = << >>]
          ELSE UNCHANGED << freq, pc, hist, trace >>
    /\ exc' = [exc EXCEPT !["main"] = "none"]
    /\ UNCHANGED << hw_state, software_rev, inverter, state, error_code, ui,
                    hardware_lock, cyc, mixed, frequency_setting,
                    hw_inv_set, attempt, ifaceVars, apiVars, svcVars >>

\* a constructed Compressor held by a connected CompressorInterface
InitFreq ==
    /\ InitCompressor
    /\ InitThreads
    /\ InitAttributes
    /\ InitNoInverter
    /\ InitNoService
    /\ inverter_config = (IF inverter = "None" THEN "untyped" ELSE inverter)
    /\ hardware = "Compressor"
    /\ hardware_error = "None"
    /\ comm_status = "none"
    /\ gi = 0
    /\ message = "none"

NextFreq ==
    \/ call_set_inverter_freq
    \/ initialize_hardware
    \/ set_inverter_freq("main")
    \/ sif_get("main")

SpecFreq == InitFreq /\ [][NextFreq]_vars

----------------------------------------------------------------------------
(* The errors property of a Compressor whose cached error code is any sum  *)
(* of at most MaxFlags distinct fault flags, of either sign                 *)

RECURSIVE FlagSetsUpTo(_)
FlagSetsUpTo(k) ==
    IF k = 0 THEN { {} }
    ELSE LET P == FlagSetsUpTo(k - 1)
         IN  P \cup { S \cup {i} : S \in P, i \in 1 .. Len(ErrorFlags) }

FlagSets == FlagSetsUpTo(MaxFlags)

RECURSIVE FlagSum(_)
FlagSum(S) ==
    IF S = {} THEN 0
    ELSE LET i == CHOOSE j \in S : TRUE
         IN  ErrorFlags[i].w + FlagSum(S \ {i})

\* Compressor.errors: return _error_code_to_string(self._error_code)
errors_property ==
    /\ errors' = _error_code_to_string(error_code)
    /\ UNCHANGED << hw_state, software_rev, inverter, state, error_code, pc,
                    ui, trace, hist, exc, hardware_lock, cyc, mixed, invVars,
                    ifaceVars, svcVars, register_map, comp, Inverter_client >>

InitDecode ==
    /\ hw_state = ST_ERROR
    /\ software_rev = FW_V3
    /\ inverter = "None"
    /\ state = hw_state
    /\ \E S \in FlagSets : error_code \in {FlagSum(S), -FlagSum(S)}
    /\ comp = "Compressor"
    /\ InitThreads
    /\ InitAttributes
    /\ InitNoInverter
    /\ InitNoInterface
    /\ InitNoService

NextDecode == errors_property

SpecDecode == InitDecode /\ [][NextDecode]_vars

\* the least code of the signed 32-bit range: Compressor._read_int32 decodes
\* the error and warning registers with decode_32bit_int
MinInt32 == -2147483647 - 1

\* the codes at the ends of the signed 32-bit range
RangeEnds == {MinInt32, MinInt32 + 1, 2147483647}

InitDecodeRange ==
    /\ hw_state = ST_ERROR
    /\ software_rev = FW_V3
    /\ inverter = "None"
    /\ state = hw_state
    /\ \/ \E S \in FlagSets : error_code \in {FlagSum(S), -FlagSum(S)}
       \/ error_code \in RangeEnds
    /\ comp = "Compressor"
    /\ InitThreads
    /\ InitAttributes
    /\ InitNoInverter
    /\ InitNoInterface
    /\ InitNoService

\* the errors property over the whole range of the error register
SpecDecodeRange == InitDecodeRange /\ [][NextDecode]_vars

----------------------------------------------------------------------------
(* A direct caller that constructs its Compressor and reads from it, on     *)
(* thread "main"                                                           *)

\* comp = Compressor(ip_address, inverter = mode): the constructor is
\* entered; self._inverter = inverter
call_Compressor ==
    /\ Idle("main")
    /\ comp = "None"
    /\ \E mode \in InverterModes : inverter' = mode
    /\ pc' = [pc EXCEPT !["main"] = << "init_serial", "new_done" >>]
    /\ hist' = [hist EXCEPT !["main"] = NewCall("__init__")]
    /\ trace' = [trace EXCEPT !["main"] = << >>]
    /\ exc' = [exc EXCEPT !["main"] = "none"]
    /\ UNCHANGED << hw_state, software_rev, state, error_code, ui,
                    hardware_lock, cyc, mixed, invVars, ifaceVars, svcVars,
                    apiVars >>

\* the constructor has returned: the caller holds the object
new_done(t) ==
    /\ At(t, "new_done")
    /\ comp' = "Compressor"
    /\ Return(t, FALSE)
    /\ Outcome(t, "ok")
    /\ UNCHANGED << hw_state, software_rev, inverter, state, error_code, ui,
                    trace, invVars, ifaceVars, svcVars, register_map, errors,
                    Inverter_client >>

\* comp.get_software_rev(): s, v = self._read_int8s(self._software_addr);
\* self._software_rev = f"{s:d}.{v:d}".  The address attributes are left
\* as the constructor set them.
call_get_software_rev ==
    /\ Idle("main")
    /\ comp = "Compressor"
    /\ \E ok \in BOOLEAN, fw \in FwVersions :
          /\ trace' = [trace EXCEPT !["main"] =
                          << Ev("read", "software", class_registers.software) >>]
          /\ hist' = [hist EXCEPT !["main"] =
                         [NewCall("get_software_rev") EXCEPT
                             !.ret = IF ok THEN "ok" ELSE "read_error"]]
          /\ exc' = [exc EXCEPT !["main"] =
                        IF ok THEN "none" ELSE "RuntimeError"]
          /\ software_rev' = IF ok THEN fw ELSE software_rev
    /\ UNCHANGED << hw_state, inverter, state, error_code, pc, ui,
                    hardware_lock, cyc, mixed, otherVars >>

\* comp.get_coldhead_rpm(): if self._software_rev.startswith("3"):
\* rpm = self._read_int16(self._rpm_addr)
call_get_coldhead_rpm ==
    /\ Idle("main")
    /\ comp = "Compressor"
    /\ IF software_rev = FW_V3
       THEN \E ok \in ReadOutcomes("rpm") :
               /\ trace' = [trace EXCEPT !["main"] = << ReadEv("rpm") >>]
               /\ hist' = [hist EXCEPT !["main"] =
                              [NewCall("get_coldhead_rpm") EXCEPT
                                  !.ret = IF ok THEN "ok" ELSE "read_error"]]
               /\ exc' = [exc EXCEPT !["main"] =
                             IF ok THEN "none" ELSE "RuntimeError"]
       ELSE /\ trace' = [trace EXCEPT !["main"] = << >>]
            /\ hist' = [hist EXCEPT !["main"] =
                           [NewCall("get_coldhead_rpm") EXCEPT !.ret = "ok"]]
            /\ exc' = [exc EXCEPT !["main"] = "none"]
    /\ UNCHANGED << hw_state, software_rev, inverter, state, error_code, pc,
                    ui, hardware_lock, cyc, mixed, otherVars >>

\* no Compressor has been constructed
InitApi ==
    /\ hw_state \in HwStates
    /\ software_rev = FW_V2
    /\ inverter = "None"
    /\ state = ST_READY
    /\ error_code = 0
    /\ comp = "None"
    /\ InitThreads
    /\ InitAttributes
    /\ InitNoInverter
    /\ InitNoInterface
    /\ InitNoService

NextApi ==
    \/ HwStep
    \/ call_Compressor
    \/ init_serial("main") \/ init_model("main") \/ init_software_rev("main")
    \/ update("main")
    \/ init_press_scale("main") \/ init_temp_scale("main")
    \/ new_done("main")
    \/ call_update
    \/ call_get_software_rev
    \/ call_get_coldhead_rpm

SpecApi == InitApi /\ [][NextApi]_vars

----------------------------------------------------------------------------
(* A direct caller that constructs Inverter and Compressor objects, on     *)
(* thread "main"                                                           *)

\* inv = Inverter(address, port): the constructor is entered
call_Inverter ==
    /\ Idle("main")
    /\ pc' = [pc EXCEPT !["main"] = << "Inverter__init__" >>]
    /\ hist' = [hist EXCEPT !["main"] = NewCall("Inverter")]
    /\ trace' = [trace EXCEPT !["main"] = << >>]
    /\ exc' = [exc EXCEPT !["main"] = "none"]
    /\ UNCHANGED << hw_state, software_rev, inverter, state, error_code, ui,
                    hardware_lock, cyc, mixed, otherVars >>

\* Inverter.__init__: self._client = None; the address, the serial
\* configuration and the cached values are stored; self.update().  The
\* constructor does not call connect().
Inverter__init__(t) ==
    /\ At(t, "Inverter__init__")
    /\ Inverter_client' = "None"
    /\ Goto(t, "Inverter_update", FALSE)
    /\ UNCHANGED << hw_state, software_rev, inverter, state, error_code, ui,
                    trace, hist, invVars, ifaceVars, svcVars, register_map,
                    comp, errors >>

\* Inverter.update: self._get_frequency(), whose _read_registers evaluates
\* self._client.read_holding_registers(...): with self._client None that
\* is an AttributeError, which the retry decorator does not retry
Inverter_update(t) ==
    /\ At(t, "Inverter_update")
    /\ IF Inverter_client = "None"
       THEN /\ Raise(t, "AttributeError", FALSE)
            /\ Outcome(t, "read_error")
            /\ trace' = trace
       ELSE /\ Log(t, Ev("read", "frequency", 1))
            /\ Return(t, TRUE)
            /\ Outcome(t, "ok")
    /\ UNCHANGED << hw_state, software_rev, inverter, state, error_code, ui,
                    otherVars >>

NextConstruct ==
    \/ HwStep
    \/ call_Inverter
    \/ Inverter__init__("main")
    \/ Inverter_update("main")
    \/ call_Compressor
    \/ init_serial("main") \/ init_model("main") \/ init_software_rev("main")
    \/ update("main")
    \/ init_press_scale("main") \/ init_temp_scale("main")
    \/ new_done("main")
    \/ call_update

SpecConstruct == InitApi /\ [][NextConstruct]_vars

----------------------------------------------------------------------------
(* The command line front end (cli.py): main() on thread "main"            *)

\* the parameters of Compressor.__init__, which takes no **kwargs
InitParameters ==
    {"ip_address", "port", "inverter", "inverter_address", "inverter_port"}

\* the keywords main() passes to Compressor(...)
MainKeywords == {"ip_address", "inverter", "inverter_address", "debug"}

\* the power options of the command line, a mutually exclusive group
PowerOptions == {"--on", "--off"}

\* main(args) with an address and one of --on, --off:
\* comp = Compressor(ip_address=..., inverter=..., inverter_address=...,
\* debug=args.debug).  A keyword that is no parameter of __init__ is a
\* TypeError raised by the call itself, before the constructor is entered;
\* nothing in main() catches it
main ==
    /\ Idle("main")
    /\ comp = "None"
    /\ trace' = [trace EXCEPT !["main"] = << >>]
    /\ \E opt \in PowerOptions, dev \in {"None", "rs485", "rs485_ethernet"} :
          IF MainKeywords \subseteq InitParameters
          THEN /\ inverter' = dev
               /\ pc' = [pc EXCEPT !["main"] = << "init_serial", "main_power" >>]
               /\ hist' = [hist EXCEPT !["main"] = NewCall(opt)]
               /\ exc' = [exc EXCEPT !["main"] = "none"]
          ELSE /\ inverter' = inverter
               /\ pc' = pc
               /\ hist' = [hist EXCEPT !["main"] =
                              [NewCall(opt) EXCEPT !.ret = "raised"]]
               /\ exc' = [exc EXCEPT !["main"] = "TypeError"]
    /\ UNCHANGED << hw_state, software_rev, state, error_code, ui,
                    hardware_lock, cyc, mixed, otherVars >>

\* if args.off: state_code 0: "already off"; 5: "already stopping"; 2:
\* "still starting"; else comp.off().  elif args.on: state_code 2 or 3:
\* "already on"; not 0: "cannot start at this time"; else comp.on()
main_power(t) ==
    /\ At(t, "main_power")
    /\ LET opt == hist[t].m
           call == IF opt = "--off"
                   THEN state \notin {ST_READY, ST_STOPPING, ST_STARTING}
                   ELSE state \notin {ST_STARTING, ST_RUNNING}
                        /\ state = ST_READY
       IN  IF call
           THEN /\ Step(t, << IF opt = "--on" THEN "on_write" ELSE "off_write",
                              "main_done" >>, FALSE, FALSE)
                /\ hist' = [hist EXCEPT ![t] =
                               NewCall(IF opt = "--on" THEN "on" ELSE "off")]
                /\ trace' = [trace EXCEPT ![t] = << >>]
                /\ exc' = exc
           ELSE Finish(t, FALSE)
    /\ UNCHANGED << hw_state, software_rev, inverter, state, error_code, ui,
                    otherVars >>

\* on() or off() returned, or raised the RuntimeError that main() catches
\* and reports; main() returns
main_done(t) ==
    /\ At(t, "main_done")
    /\ Finish(t, FALSE)
    /\ UNCHANGED << hw_state, software_rev, inverter, state, error_code, ui,
                    otherVars >>

NextCli ==
    \/ HwStep
    \/ main
    \/ init_serial("main") \/ init_model("main") \/ init_software_rev("main")
    \/ update("main")
    \/ init_press_scale("main") \/ init_temp_scale("main")
    \/ main_power("main")
    \/ CompressorStep("main")
    \/ main_done("main")

SpecCli == InitApi /\ [][NextCli]_vars

----------------------------------------------------------------------------
(* Properties of Compressor.on / Compressor.off, under Spec *)

PowerCalls == {"on", "off"}
Finished == {"ok", "confirm_fail", "write_error", "read_error"}

EnableWrites(tr) == SelectSeq(tr, LAMBDA e : e.k = "write" /\ e.a = "enable")
ReadsOf(tr, reg) == SelectSeq(tr, LAMBDA e : e.k = "read" /\ e.a = reg)
EnableCode(m) == IF m = "on" THEN ENABLE_ON ELSE ENABLE_OFF

\* C3 (as claimed): when the state read after the first settle delay is not
\* starting or running, on() waits one more delay and reads the operating
\* state again before its final check: on() never fails on confirmation
\* when the device is starting or running at the end of the second delay.
C3_RereadAfterSecondDelay ==
    \A t \in Threads :
        (hist[t].m = "on" /\ hist[t].ret = "confirm_fail")
            => hist[t].chk \notin OnStates

\* C4 (as claimed): on() called in state ready, when the transport does not
\* fail, either returns normally with the cached state starting or running,
\* or fails on confirmation carrying a non-zero fault code.
C4_OnFromReady_Original ==
    \A t \in Threads :
        (hist[t].m = "on" /\ hist[t].st0 = ST_READY
            /\ hist[t].ret \in {"ok", "confirm_fail"})
            => \/ hist[t].ret = "ok" /\ state \in OnStates
               \/ hist[t].ret = "confirm_fail" /\ hist[t].carries
                    /\ hist[t].code # 0

\* C4 (amended): on() called in state ready ends in one of four ways: a
\* normal return, which happens only when the state read after the first
\* settle delay was starting or running (the cached state at return is the
\* one update() read last); a confirmation failure, which happens only when
\* that read showed another state, and which carries the fault code just
\* read from the error register, zero or not; or a transport failure of the
\* write or of a read.
C4_OnFromReady ==
    \A t \in Threads :
        (hist[t].m = "on" /\ hist[t].st0 = ST_READY)
            => /\ hist[t].ret \in Finished \cup {"running"}
               /\ hist[t].ret = "ok" => hist[t].conf = "yes"
               /\ hist[t].ret = "confirm_fail"
                    => /\ hist[t].conf = "no"
                       /\ hist[t].carries
                       /\ hist[t].code = error_code
                       /\ trace[t][Len(trace[t])] = ReadEv("error")

\* C4 witness: on() called in state ready returned normally although the
\* cached state is no longer starting or running
C4_Witness ==
    \E t \in Threads :
        /\ hist[t].m = "on" /\ hist[t].st0 = ST_READY
        /\ hist[t].ret = "ok" /\ hist[t].conf = "yes"
        /\ state \notin OnStates

\* C5: an execution of on() or off() writes the enable register exactly
\* once, with the start code for on() and the stop code for off(),
\* whatever its outcome; the write is never repeated.
C5_OneEnableWrite ==
    \A t \in Threads :
        hist[t].m \in PowerCalls
            => /\ Len(EnableWrites(trace[t])) <= 1
               /\ hist[t].ret \in Finished
                    => EnableWrites(trace[t])
                         = << Ev("write", "enable", EnableCode(hist[t].m)) >>

\* C5 witness: on() failed on confirmation, having written once
C5_Witness ==
    \E t \in Threads :
        /\ hist[t].m = "on" /\ hist[t].ret = "confirm_fail"
        /\ Len(EnableWrites(trace[t])) = 1

\* C6 (as claimed): off() returns normally only after reading a state in
\* {stopping, ready}; when the state does not converge it reads the error
\* register and its failure carries the fault code.
C6_OffCarriesFaultCode ==
    \A t \in Threads :
        hist[t].m = "off"
            => /\ hist[t].ret = "ok" => hist[t].conf = "yes"
               /\ hist[t].ret = "confirm_fail"
                    => /\ hist[t].carries
                       /\ Len(ReadsOf(trace[t], "error")) >= 1

\* C7: when the write to the enable register fails, on() and off() fail at
\* once: the write is the only event of the call (no settle delay, no
\* register read) and the cached state and error code are those at entry.
C7_WriteFailureImmediate ==
    \A t \in Threads :
        (hist[t].m \in PowerCalls /\ hist[t].ret = "write_error")
            => /\ trace[t] = << Ev("write", "enable", EnableCode(hist[t].m)) >>
               /\ state = hist[t].st0
               /\ error_code = hist[t].er0

\* C7 witness: an off() whose write failed
C7_Witness ==
    \E t \in Threads : hist[t].m = "off" /\ hist[t].ret = "write_error"

\* C8 (as claimed): a power command issued while the compressor is starting
\* or stopping is rejected without a write to the enable register.
C8_MidTransitionRejected ==
    \A t \in Threads :
        (hist[t].m \in PowerCalls /\ hist[t].st0 \in {ST_STARTING, ST_STOPPING})
            => EnableWrites(trace[t]) = << >>

\* C9: off() called while the state is starting is not refused: its first
\* event is the stop write to the enable register, and its outcome follows
\* the confirmation read (normal return only after a read in {stopping,
\* ready}, confirmation failure only after a read outside it).
C9_OffWhileStartingAccepted ==
    \A t \in Threads :
        (hist[t].m = "off" /\ hist[t].st0 = ST_STARTING)
            => /\ hist[t].ret \in Finished \cup {"running"}
               /\ ~At(t, "off_write")
                    => /\ trace[t] # << >>
                       /\ trace[t][1] = Ev("write", "enable", ENABLE_OFF)
               /\ hist[t].ret = "ok" => hist[t].conf = "yes"
               /\ hist[t].ret = "confirm_fail" => hist[t].conf = "no"

\* C9 witness: an off() called while starting that returned normally
C9_Witness ==
    \E t \in Threads :
        /\ hist[t].m = "off" /\ hist[t].st0 = ST_STARTING
        /\ hist[t].ret = "ok"

----------------------------------------------------------------------------
(* Properties of Inverter.set_frequency, under SpecInv *)

RegisterWrites(tr) == SelectSeq(tr, LAMBDA e : e.k = "write")

\* C10 (as claimed): set_frequency rejects every frequency below 40.0 Hz
\* or above 70.0 Hz without a register write, and issues the write for
\* every frequency in [40.0, 70.0].
C10_RangeCheck ==
    \A t \in Threads :
        (hist[t].m = "set_frequency" /\ ~At(t, "set_frequency"))
            => IF freq < 1000 * CB_F_MIN \/ freq > 1000 * CB_F_MAX
               THEN hist[t].ret = "rejected" /\ RegisterWrites(trace[t]) = << >>
               ELSE hist[t].ret # "rejected"
                    /\ (~At(t, "_set_frequency")
                          => Len(RegisterWrites(trace[t])) = 1)

----------------------------------------------------------------------------
(* Properties of the frequency commands, under SpecFreq and SpecInv *)

\* the frequency commands that do not pass through a daemon callback
FreqCalls == {"set_inverter_freq", "initialize_hardware"}

\* C11 (as claimed): no frequency command writes a value outside
\* [40.0, 70.0] Hz to the inverter set-frequency register (which holds
\* tenths of a hertz): a request outside the range issues no write, and
\* every value written lies between 400 and 700.
C11_NoOutOfRangeWrite ==
    \A t \in Threads :
        hist[t].m \in FreqCalls
            => /\ (freq < 1000 * CB_F_MIN \/ freq > 1000 * CB_F_MAX)
                    => RegisterWrites(trace[t]) = << >>
               /\ \A i \in 1 .. Len(trace[t]) :
                     trace[t][i].k = "write"
                        => /\ trace[t][i].v >= 10 * CB_F_MIN
                           /\ trace[t][i].v <= 10 * CB_F_MAX

\* C12 (as claimed): for a frequency f in [40.0, 70.0] Hz, when
\* set_frequency has succeeded and the device holds the value written, the
\* frequency setting read back from the setting register equals f within
\* one encoding step (0.01 Hz).
C12_RoundTrip ==
    \A t \in Threads :
        (/\ hist[t].m = "set_frequency" /\ hist[t].ret = "ok"
         /\ freq >= 1000 * CB_F_MIN /\ freq <= 1000 * CB_F_MAX
         /\ hw_inv_set = Hundredths(freq))
            => /\ 10 * frequency_setting <= freq
               /\ freq < 10 * (frequency_setting + 1)

\* C13 (as claimed): set_frequency returns normally only when the setting
\* register read back after the write shows the frequency requested; when
\* it shows another value the call ends in a failure.
C13_UnconvergedReported ==
    \A t \in Threads :
        (hist[t].m = "set_frequency" /\ hist[t].ret = "ok")
            => frequency_setting = Hundredths(freq)

\* the transport calls of a retried read, and the answers they got
RetriedReads(tr) == SelectSeq(tr, LAMBDA e : e.k = "read")
Replies(tr) == SelectSeq(tr, LAMBDA e : e.k = "reply")

\* C14: one invocation of _read_registers calls the transport at most 5
\* times, and every call after the first follows a call that failed with a
\* transient I/O error: after an answer, an error reply or any other
\* failure no further call is made.
C14_BoundedRetry ==
    \A t \in Threads :
        hist[t].m = "set_frequency"
            => /\ Len(RetriedReads(trace[t])) <= STOP_MAX_ATTEMPT
               /\ Len(RetriedReads(trace[t])) = Len(Replies(trace[t]))
               /\ \A i \in 1 .. (Len(Replies(trace[t])) - 1) :
                     Replies(trace[t])[i].a = "io_error"

\* C14 witness: a retried read that used all five attempts, each failing
\* with a transient I/O error, and then failed
C14_Witness ==
    \E t \in Threads :
        /\ hist[t].m = "set_frequency" /\ hist[t].ret = "read_error"
        /\ exc[t] = "ModbusIOException"
        /\ Len(RetriedReads(trace[t])) = STOP_MAX_ATTEMPT

----------------------------------------------------------------------------
(* Properties of the daemons' hardware access, under SpecIface and SpecSvc *)

\* the positions inside the "with self._hardware_lock" blocks of
\* CompressorInterface: the constructor, update(), the logged getters,
\* on(), off() and set_inverter_freq()
LockedLabels ==
    { "ch_construct", "init_serial", "init_model", "init_software_rev",
      "init_press_scale", "init_temp_scale", "ch_connected", "update",
      "la_getters", "on_write", "on_sleep1", "on_get_state", "on_sleep2",
      "on_get_errors", "on_update", "on_return", "off_write", "off_sleep1",
      "off_get_state", "off_sleep2", "off_update", "off_return", "cc_done",
      "set_inverter_freq", "sif_get", "fc_done" }

InLocked(t) == pc[t] # << >> /\ Head(pc[t]) \in LockedLabels

C2_CommandsSerialized == mixed = {}

\* the polling thread is at the entry of connect_hardware in stack s
AtConnect(s) == s # << >> /\ Head(s) = "connect_hardware"

\* C20: in CompressorInterface a connection attempt is made only at the
\* start of a logging_action, and only when no hardware is connected: the
\* polling thread enters connect_hardware from no other position, so one
\* logging_action makes at most one attempt, and a failed connection or a
\* failed update inside the cycle is followed by no attempt before the
\* next logging_action.
C20_ReconnectNextCycle ==
    [][(AtConnect(pc'["poll"]) /\ ~AtConnect(pc["poll"]))
          => (Idle("poll") /\ hardware = "None")]_vars

\* C20 witness: a logging_action whose update failed after a successful
\* connection has ended with the hardware dropped and no reconnection
C20_Witness ==
    /\ Idle("poll")
    /\ hardware = "None"
    /\ hardware_error = "None"
    /\ comm_status = "connection error"

----------------------------------------------------------------------------
(* Properties of the polling cycle of CompressorSmaxService, under         *)
(* SpecCycle.  The service is configured with a compressor and an inverter *)
(* (create_inverter reads the "inverter" section of the configuration).    *)

\* smax_logging_action has returned, and its statuses are those published
CyclePublished == Idle("poll") /\ compressor_comms_status # "none"

\* the status fields of the cycle, per device
CommsStatus ==
    [compressor |-> compressor_comms_status,
     inverter |-> inverter_comms_status]

\* C15 (as claimed): in a cycle whose retried inverter reads meet k
\* transient I/O failures, 1 <= k <= 4, and then an answer, update() of the
\* inverter completes at its first invocation and the cycle reports the
\* inverter with status "good".
C15_RetriedReadNoStale ==
    (CyclePublished /\ io_failures >= 1 /\ io_failures < STOP_MAX_ATTEMPT)
        => /\ updates.inverter = << "ok" >>
           /\ inverter_comms_status = "good"

\* C16 (as claimed): in a cycle whose retried inverter reads fail on all 5
\* attempts, both update() invocations fail and the cycle reports the
\* inverter "stale"; in a cycle whose transport answers at once the
\* inverter is reported "good", whatever the cycles before.
C16_ExhaustedRetriesStale ==
    CyclePublished
        => /\ io_failures = STOP_MAX_ATTEMPT
                => /\ updates.inverter = << "failed", "failed" >>
                   /\ inverter_comms_status = "stale"
           /\ io_failures = 0 => inverter_comms_status = "good"

\* C17 (as claimed): in each cycle update() of each configured device is
\* invoked once or twice, the second time only after the first failed, and
\* the device's status is "stale" exactly when both invocations failed and
\* "good" otherwise.
C17_OneRetryThenStale ==
    CyclePublished
        => \A d \in DOMAIN updates :
              /\ Len(updates[d]) \in {1, 2}
              /\ Len(updates[d]) = 2 => updates[d][1] = "failed"
              /\ CommsStatus[d] = "stale"
                    <=> updates[d] = << "failed", "failed" >>
              /\ CommsStatus[d] # "stale" => CommsStatus[d] = "good"

C19_StatusNeverOmitted ==
    CyclePublished
        => \A d \in DOMAIN CommsStatus : CommsStatus[d] \in {"good", "stale"}

----------------------------------------------------------------------------
(* Properties of the fault decoder, under SpecDecode *)

Magnitude(code) == IF code < 0 THEN -code ELSE code

\* the position of a name in the order of the flag tests
FlagOf(name) == CHOOSE i \in 1 .. Len(ErrorFlags) : ErrorFlags[i].n = name

\* C21: the string decoded from code 0 is "None"; two distinct flags have
\* distinct names; and for every set S of distinct fault flags, the string
\* decoded from a code whose magnitude is the sum of S lists exactly the
\* names of the flags of S, each once, the larger flag first.
C21_DecodeFlagSets ==
    /\ \A i, j \in 1 .. Len(ErrorFlags) :
          i # j => /\ ErrorFlags[i].n # ErrorFlags[j].n
                   /\ ErrorFlags[i].w # ErrorFlags[j].w
    /\ errors # << >> =>
          \A S \in FlagSets :
             Magnitude(error_code) = FlagSum(S) =>
                IF S = {}
                THEN errors = << "None" >>
                ELSE /\ Len(errors) = Cardinality(S)
                     /\ { errors[k] : k \in 1 .. Len(errors) }
                           = { ErrorFlags[i].n : i \in S }
                     /\ \A k \in 1 .. (Len(errors) - 1) :
                           ErrorFlags[FlagOf(errors[k])].w
                             > ErrorFlags[FlagOf(errors[k + 1])].w

\* a positive code made of two flags has been decoded
C21_Witness ==
    /\ error_code > 0
    /\ Len(errors) = 2
    /\ errors[1] # errors[2]

----------------------------------------------------------------------------
(* Properties of the Compressor cache and register access *)

\* C22: the cached operating state changes only in a step that reads the
\* operating-state register, and then to the value the device answered;
\* no other step of update(), on() or off() assigns it, so after any
\* sequence of these calls it is the value of the latest successful read.
C22_StateOnlyFromRead ==
    [][ state' # state =>
          /\ \E t \in Threads :
                /\ Tracked(t)
                /\ trace'[t] = Append(trace[t], ReadEv("operating_state"))
          /\ state' = hw_state ]_vars

\* on() has returned and its read has changed the cached state
C22_Witness ==
    /\ hist["main"].m = "on"
    /\ hist["main"].ret = "ok"
    /\ state # hist["main"].st0
    /\ Len(ReadsOf(trace["main"], "operating_state")) >= 1

\* the transport operations recorded for the operation in progress
AddressedOps(tr) ==
    { k \in 1 .. Len(tr) :
        tr[k].k \in {"read", "write"} /\ tr[k].a \in DOMAIN cp_v2_registers }

\* C23 (as claimed): whatever the firmware version and the inverter
\* configuration, no register read or write is issued on a logical register
\* whose address is absent from the selected register map.
C23_NoAbsentAddress ==
    \A t \in Threads :
       \A k \in AddressedOps(trace[t]) : Present(trace[t][k].a)

\* the firmware version whose routine decodes a read: _read_input_register
\* and the getters test self._software_rev.startswith("3") at each call
DecodeVersion == software_rev

\* C30 (as claimed): the register map is the one selected at construction,
\* and whenever a constructed Compressor is reading its registers, after
\* any sequence of operations, get_software_rev() included, the routine
\* that decodes the reads is that of the firmware version of the map.
C30_DecodeMatchesMap ==
    \A t \in Threads :
       (comp = "Compressor" /\ At(t, "update")) => DecodeVersion = register_map

\* the sensor reads of update() in the order claimed
SensorOrder ==
    << "operating_state", "enabled", "error", "warning", "coolant_in",
       "coolant_out", "oil_temp", "helium_temp", "low_press", "low_press_avg",
       "high_press", "high_press_avg", "delta_press_avg", "motor_current",
       "hours" >>

InverterOrder == << "inverter_freq", "inverter_curr" >>

\* C24 (as claimed): an update() that completes has read the sensor
\* registers in the one fixed order, and has read the inverter frequency
\* and current registers after them exactly when the Compressor has an
\* inverter configured or detected.
C24_UpdateReadOrder ==
    LET h == hist["main"]
        tr == trace["main"]
    IN  (h.m = "update" /\ h.ret = "running" /\ Idle("main")) =>
           /\ \A k \in 1 .. Len(tr) : tr[k].k = "read"
           /\ [k \in 1 .. Len(tr) |-> tr[k].a]
                = SensorOrder \o (IF Truthy(inverter) THEN InverterOrder
                                                      ELSE << >>)

\* C25: _hardware_lock is held only by a thread that is inside one of the
\* with blocks of connect_hardware, logging_action or a callback.  So every
\* way out of a block, by return or by exception, has released it; the lock
\* is free whenever no thread is in these operations; and the holder is
\* never itself waiting for the lock, so a waiting thread is not blocked
\* for ever.
C25_LockReleased ==
    /\ hardware_lock \in {"free"} \cup Threads
    /\ \A t \in Threads : hardware_lock = t => InLocked(t)
    /\ (\A t \in Threads : Idle(t)) => hardware_lock = "free"

\* update() has failed inside the with block of logging_action: the polling
\* thread is in the except clause and the lock is free
C25_Witness ==
    /\ At("poll", "la_except")
    /\ exc["poll"] = "RuntimeError"
    /\ hardware_lock = "free"

\* the inverter types a configuration can name
InverterTypes == {"internal", "rs485", "rs485_ethernet"}

\* C26 (as claimed): whichever inverter type is configured, a frequency
\* command that passed the range test of frequency_control_callback and
\* whose set_inverter_freq call returned has written that frequency to the
\* frequency-setting register: no configured type drops the command.
C26_CommandWritten ==
    (At("cmd", "fc_done") /\ inverter_config \in InverterTypes) =>
       \E k \in 1 .. Len(trace["cmd"]) :
          trace["cmd"][k] = Ev("write", "inverter_set_freq", freq \div 100)

\* C28 (as claimed): the register operations that initialize_hardware
\* causes on the Compressor, like those of every other operation of
\* CompressorInterface, are performed while the calling thread holds
\* _hardware_lock.
C28_InitializeLocked ==
    \A t \in Threads :
       (hist[t].m = "initialize_hardware" /\ InLocked(t)) => hardware_lock = t

\* the registers that hold settings: they are written by commands
SettingRegisters == {"enable", "inverter_set_freq", "frequency_control"}

\* C29 (as claimed): every read of a sensor quantity is issued with the
\* input-register read function, and every read back of a setting with
\* the holding-register read function, on the register the command wrote.
C29_ReadFunctions ==
    \A t \in Threads :
       \A k \in 1 .. Len(trace[t]) :
          LET e == trace[t][k]
          IN  e.k = "read" =>
                 ReadFunction(e.a) = (IF e.a \in SettingRegisters
                                      THEN "holding" ELSE "input")

----------------------------------------------------------------------------
(* Properties of CompressorSmaxService.stop, under SpecStop *)

\* what stop() is to do, in order, for the devices connected
StopSequence ==
    << Ev("call", "smax_unsubscribe", 0), Ev("call", "smax_disconnect", 0) >>
    \o (IF compressor = "None" THEN << >>
        ELSE << Ev("call", "compressor_disconnect", 0) >>)
    \o (IF service_inverter = "None" THEN << >>
        ELSE << Ev("call", "inverter_disconnect", 0) >>)
    \o << Ev("call", "exit", 0) >>

\* C27 (as claimed): stop() unsubscribes, then disconnects the transport
\* of every connected device, then exits; in whatever state it is called,
\* it is never left before its exit step.
C27_StopReachesExit ==
    /\ ~At("poll", "stop_aborted")
    /\ At("poll", "stop_exited") => trace["poll"] = StopSequence

----------------------------------------------------------------------------
(* Further properties of the fault decoder *)

\* C31: the decoder does not depend on the sign of the code: the string
\* decoded from a code is the string decoded from its negation, so the
\* negative and the positive encoding of one set of flags give one list.
C31_SignIndependent ==
    errors # << >> => errors = _error_code_to_string(-error_code)

\* a negative code made of two flags has been decoded
C31_Witness ==
    /\ error_code < 0
    /\ Len(errors) = 2
    /\ errors = _error_code_to_string(-error_code)

\* the sum of the flags named in a decoded string, negated
RECURSIVE NegFlagSum(_)
NegFlagSum(str) ==
    IF str = << >> \/ str = << "None" >> THEN 0
    ELSE NegFlagSum(Tail(str)) - ErrorFlags[FlagOf(Head(str))].w

\* C34 (as claimed): for every code of the signed 32-bit range, the least
\* one included, the flags named in the decoded string are distinct and
\* sum to the magnitude of the code.
C34_FlagsSumToMagnitude ==
    errors # << >> =>
       /\ \A j, k \in 1 .. Len(errors) : j # k => errors[j] # errors[k]
       /\ NegFlagSum(errors)
            = (IF error_code > 0 THEN -error_code ELSE error_code)

----------------------------------------------------------------------------
(* Further properties of CompressorInterface *)

C33_EventuallyGood == []<>(comm_status = "good")

\* the registers a recorded read covers: address .. address + count - 1
ReadSpan(e) == e.v .. (e.v + ReadCount(DecodeVersion, e.a) - 1)

\* the registers the selected register map assigns to the quantity read
OwnSpan(e) == e.v .. (e.v + RegisterWidth(register_map, e.a) - 1)

\* the reads recorded for the operation in progress of registers the map has
MapReads(tr) ==
    { k \in 1 .. Len(tr) :
        /\ tr[k].k = "read"
        /\ tr[k].a \in DOMAIN cp_v2_registers
        /\ Present(tr[k].a) }

\* C35 (as claimed): for both register maps, the registers covered by each
\* read (address .. address + count - 1) stay inside the registers the map
\* assigns to the quantity read, so no read of one quantity includes a
\* register of a different quantity.
C35_ReadWithinQuantity ==
    \A t \in Threads :
       \A k \in MapReads(trace[t]) : ReadSpan(trace[t][k]) \subseteq OwnSpan(trace[t][k])

\* update() is at one of its two inverter getters, _get_inverter_freq or
\* _get_inverter_curr
AtInverterGetter(t) == At(t, "update") /\ ui[t] > NSensors

\* C36 (as claimed): an Inverter issues no register read or write before
\* its transport is opened: the initial update() of the constructor finds
\* the connection open, and the inverter client of a Compressor in rs485
\* mode exists when update() first uses it.
C36_TransportBeforeUse ==
    \A t \in Threads :
       /\ At(t, "Inverter_update") => Inverter_client = "open"
       /\ (AtInverterGetter(t) /\ inverter = "rs485")
             => _inverterclient = "Inverter"

\* the except clauses of the two command callbacks
CallbackExcept == {"cc_except", "fc_except"}

\* one step under C37: an exception raised in thread "cmd" is at the
\* except clause of its callback; the except clause stores it in
\* _hardware_error and the callback returns; no step of the callback
\* changes self._hardware
ContainedStep ==
    /\ exc'["cmd"] # "none"
          => pc'["cmd"] # << >> /\ Head(pc'["cmd"]) \in CallbackExcept
    /\ (pc["cmd"] # << >> /\ Head(pc["cmd"]) \in CallbackExcept
          /\ pc'["cmd"] # pc["cmd"])
          => hardware_error' = exc["cmd"] /\ pc'["cmd"] = << >>
    /\ pc'["cmd"] # pc["cmd"] => hardware' = hardware

\* C37 (as claimed): a failure of on(), off() or set_inverter_freq inside a
\* command callback of CompressorInterface is recorded in _hardware_error,
\* does not leave the callback, and leaves the hardware connection as it
\* was, in every interleaving with logging_action, the one in which the
\* hardware is discarded between the callback's test and its lock included.
C37_FailureContained == [][ContainedStep]_vars

\* the callback found the hardware discarded after its test, and is at its
\* except clause with the AttributeError
C37_Witness ==
    /\ At("cmd", "cc_except")
    /\ exc["cmd"] = "AttributeError"
    /\ hardware = "None"

\* the readings update() covers: the fifteen sensor readings, and the two
\* inverter readings when self._inverter is set
CoveredReadings ==
    { SensorOrder[k] : k \in 1 .. Len(SensorOrder) }
      \cup (IF Truthy(inverter) THEN { InverterOrder[k] : k \in 1 .. 2 }
                                ELSE {})

\* the readings a register read of the recorded events has refreshed
Refreshed(tr) == { tr[k].a : k \in { j \in 1 .. Len(tr) : tr[j].k = "read" } }

\* C38 (as claimed): whenever a poll cycle reports "good", every reading
\* that update() covers, any of which the cycle may publish, was refreshed
\* by a register read of an update() of that cycle; none is published from
\* an earlier cycle or at its initial value.
C38_GoodMeansRefreshed ==
    [][(comm_status' = "good" /\ comm_status # "good")
          => CoveredReadings \subseteq Refreshed(trace["poll"])]_vars

\* C39 (as claimed): the command line writes the enable register only
\* through on() entered with the last-read state ready, or through off()
\* entered with a last-read state that is none of ready, starting and
\* stopping.
C39_PowerCommandGated ==
    EnableWrites(trace["main"]) # << >>
       => \/ hist["main"].m = "on" /\ hist["main"].st0 = ST_READY
          \/ /\ hist["main"].m = "off"
             /\ hist["main"].st0 \notin {ST_READY, ST_STARTING, ST_STOPPING}

\* the command line has called on() or off() and the enable register was
\* written
C39_Witness ==
    /\ hist["main"].m \in PowerCalls
    /\ EnableWrites(trace["main"]) # << >>

====
